---- MODULE Spec2Model ----
(***************************************************************************)
(* Flight-phase state machine, run loop and supporting pure functions of   *)
(* the CamPyRoS 6DOF trajectory simulator.                                 *)
(*                                                                         *)
(* Quantities are integers: time in ticks, lengths in length units.  The   *)
(* rocket's inertial position is carried as its launch-frame image pos_l   *)
(* = <<x, z>> (x horizontal, z up, origin at altitude 0 below the launch   *)
(* site).  The continuous dynamics are a nondeterministic choice of the    *)
(* next accepted state; the control logic around them is translated from   *)
(* the source statement by statement.                                      *)
(***************************************************************************)
EXTENDS Integers, Sequences, FiniteSets, TLC

(* ------------------------------ bounds -------------------------------- *)
\* run(max_time=...) argument, in ticks
MaxTime == 6
\* largest altitude the integrator may reach
MaxZ == 2
\* largest launch-site altitude drawn in Init
MaxSiteAlt == 1
\* largest rail length drawn in Init
MaxRail == 2
\* largest step the integrator tries, in ticks
MaxH == 3
\* the horizontal offsets the rocket may be at
Downrange == {0, 1}
\* the pitch rates the rocket may have, and the pitch moments drawn
PitchRates == {0, 1}
PitchMoments == {-1, 0, 1}

(* --------------------------- program constants ------------------------ *)
\* motor.time_array[-1], the burn end, in ticks
BurnEnd == 4
\* Rocket.__init__ default alt_poll_interval
AltPollInterval == 1

VARIABLES
    \* ---- Rocket.run / Rocket.check_phase (src/campyros/main.py) ----
    pc,                  \* position in Rocket.run
    time,                \* self.time
    pos_l,               \* pos_i2l(self.pos_i, launch_site, self.time)
    w_b,                 \* self.w_b
    y_w,                 \* integrator.y[6:9]
    on_rail,             \* self.on_rail
    burn_out,            \* self.burn_out
    parachute_deployed,  \* self.parachute_deployed
    alt_record,          \* self.alt_record
    alt_poll_watch,      \* self.alt_poll_watch
    events,              \* the list check_phase returned in this iteration
    new_row,             \* the row appended to record by the last iteration
    record_len,          \* len(record)
    h_previous,          \* integrator.h_previous
    status,              \* integrator.status
    variable_time,       \* self.variable_time
    rocket_h,            \* self.h
    site_alt,            \* launch_site.alt
    rail_length,         \* launch_site.rail_length
    \* ---- CylindricalMassModel (src/main.py) ----
    mm_data,             \* index of the (time, mass, l, r) the model was built from
    mm_call,             \* the last query, <<method, t>>
    mm_result,           \* what it returned, or that it raised
    \* ---- one evaluation of Rocket.fdot's ACCELERATIONS section ----
    fd_in,               \* its inputs
    fd_out,              \* the accelerations it returned
    \* ---- Rocket.step of the first simulator (src/main.py) ----
    st_time,             \* self.time
    st_h,                \* self.h
    st_pos,              \* self.pos (one coordinate)
    st_variable,         \* self.variable_time
    st_err,              \* fifth root of err of the last call, <<num, den>>
    st_calls,            \* calls of step() so far
    \* ---- default arguments of Rocket.__init__ ----
    heap,                \* the mutable objects, by identity
    rockets,             \* the Rocket objects constructed so far
    touched,             \* the rockets whose own attributes were written to
    \* ---- Rocket.run's record, its JSON export and from_json ----
    rc_pc,               \* position in run() / from_json()
    rc_time,             \* self.time
    rc_pos_i,            \* self.pos_i, <<x, z>>
    rc_vel_i,            \* self.vel_i, <<x, z>>
    rc_status,           \* integrator.status
    rc_max_time,         \* the max_time argument
    record,              \* the DataFrame record, a sequence of rows
    json_file,           \* the text written to the to_json path
    imported,            \* the DataFrame from_json returned
    \* ---- one call of validate_lat_long ----
    ll_in,               \* its arguments
    ll_out,              \* what it returned
    \* ---- the frame transforms of the first simulator (src/main.py) ----
    tr_in,               \* the vector, launch site and time they are applied to
    tr_out,              \* the last round trip made and its result
    \* ---- the orientation in Rocket.run's loop ----
    or_y,                \* integrator.y[9:18], the three body axes <<xb, yb, zb>>
    or_b2imat,           \* b2imat of the last snapshot, a matrix of fractions
    or_b2i,              \* self.b2i as a matrix of fractions
    or_deployed,         \* self.parachute_deployed
    or_rows,             \* iterations made
    or_raised,           \* an exception has left run()
    \* ---- the force and moment terms of one Rocket.fdot evaluation ----
    ff_in,               \* the rocket and flight state fdot is evaluated for
    ff_time,             \* the time argument of the last evaluation
    ff_out,              \* the terms it computed
    ff_burn_out,         \* self.burn_out
    \* ---- Rocket.run's loop, statement by statement ----
    lp_pc,               \* the statement of run() that is next
    lp_self,             \* the Rocket's attributes
    lp_int,              \* the integrator: t, y[0:3] and status
    lp_max_time,         \* the max_time argument
    lp_site,             \* launch_site: alt and rail_length
    lp_events,           \* events, as check_phase returned it in this iteration
    lp_b2imat,           \* what b2imat was built from in this iteration
    lp_evals,            \* fdot evaluations made inside the current integrator.step()
    lp_seen,             \* the (on_rail, parachute_deployed) those evaluations read
    lp_ops,              \* the operations of the current iteration, in order
    lp_record,           \* record, a sequence of rows
    lp_before,           \* on_rail and parachute_deployed when the iteration began
    lp_changed,          \* for each row, which of the two changed in its iteration
    lp_polls,            \* the times of the altitude polls so far
    \* ---- the altitudes given to Atmosphere ----
    at_pc,               \* position in run()
    at_pos,              \* self.pos_i, <<x, z>>
    at_time,             \* self.time
    at_on_rail,          \* self.on_rail
    at_site,             \* launch_site: alt and rail_length
    at_debug,            \* the debug argument of run()
    at_lookups,          \* the altitudes Atmosphere was called with
    \* ---- the rotation of the rocket on and off the rail ----
    rl_on_rail,          \* self.on_rail
    rl_deployed,         \* self.parachute_deployed
    rl_w_b,              \* self.w_b
    rl_y_w,              \* integrator.y[6:9]
    rl_y,                \* integrator.y[9:18], the body axes <<xb, yb, zb>>
    rl_b2imat,           \* b2imat of the last snapshot, a matrix of fractions
    rl_b2i,              \* self.b2i as a matrix of fractions
    rl_axes0,            \* the body axes Rocket.__init__ aligned with the rail
    rl_rows,             \* iterations made
    rl_raised,           \* an exception has left run()
    \* ---- the mass-model queries of one Rocket.fdot evaluation ----
    fq_data,             \* index of the data the mass model was built from
    fq_time,             \* the time argument of fdot
    fq_pending,          \* the queries fdot has still to make, in order
    fq_call,             \* the last query, <<method, t>>
    fq_result,           \* what it returned, or that it raised
    fq_raised            \* an exception has left fdot

runVars == <<pc, time, pos_l, w_b, y_w, on_rail, burn_out, parachute_deployed,
             alt_record, alt_poll_watch, events, new_row, record_len,
             h_previous, status, variable_time, rocket_h, site_alt,
             rail_length>>
massVars == <<mm_data, mm_call, mm_result>>
fdotVars == <<fd_in, fd_out>>
stepVars == <<st_time, st_h, st_pos, st_variable, st_err, st_calls>>
heapVars == <<heap, rockets, touched>>
recVars == <<rc_pc, rc_time, rc_pos_i, rc_vel_i, rc_status, rc_max_time,
             record, json_file, imported>>
llVars == <<ll_in, ll_out>>
trVars == <<tr_in, tr_out>>
orVars == <<or_y, or_b2imat, or_b2i, or_deployed, or_rows, or_raised>>
ffVars == <<ff_in, ff_time, ff_out, ff_burn_out>>
lpVars == <<lp_pc, lp_self, lp_int, lp_max_time, lp_site, lp_events, lp_b2imat,
            lp_evals, lp_seen, lp_ops, lp_record, lp_before, lp_changed,
            lp_polls>>
atVars == <<at_pc, at_pos, at_time, at_on_rail, at_site, at_debug,
            at_lookups>>
rlVars == <<rl_on_rail, rl_deployed, rl_w_b, rl_y_w, rl_y, rl_b2imat, rl_b2i,
            rl_axes0, rl_rows, rl_raised>>
fqVars == <<fq_data, fq_time, fq_pending, fq_call, fq_result, fq_raised>>
restVars ==
    <<recVars, llVars, trVars, orVars, ffVars, lpVars, atVars, rlVars,
      fqVars>>
oldVars == <<runVars, massVars, fdotVars, stepVars, heapVars>>
notRecVars ==
    <<oldVars, llVars, trVars, orVars, ffVars, lpVars, atVars, rlVars,
      fqVars>>
notLlVars ==
    <<oldVars, recVars, trVars, orVars, ffVars, lpVars, atVars, rlVars,
      fqVars>>
notTrVars ==
    <<oldVars, recVars, llVars, orVars, ffVars, lpVars, atVars, rlVars,
      fqVars>>
notOrVars ==
    <<oldVars, recVars, llVars, trVars, ffVars, lpVars, atVars, rlVars,
      fqVars>>
notFfVars ==
    <<oldVars, recVars, llVars, trVars, orVars, lpVars, atVars, rlVars,
      fqVars>>
notLpVars ==
    <<oldVars, recVars, llVars, trVars, orVars, ffVars, atVars, rlVars,
      fqVars>>
notAtVars ==
    <<oldVars, recVars, llVars, trVars, orVars, ffVars, lpVars, rlVars,
      fqVars>>
notRlVars ==
    <<oldVars, recVars, llVars, trVars, orVars, ffVars, lpVars, atVars,
      fqVars>>
notFqVars ==
    <<oldVars, recVars, llVars, trVars, orVars, ffVars, lpVars, atVars,
      rlVars>>
otherVars == <<massVars, fdotVars, stepVars, heapVars, restVars>>

vars == <<runVars, massVars, fdotVars, stepVars, heapVars, restVars>>

Zero3 == <<0, 0, 0>>

\* record = pd.DataFrame({}): no row yet
NoRow == [time |-> 0, pos_l |-> <<0, 0>>, w_b |-> Zero3, events |-> <<>>]

(* ------------------------- transforms (abstract) ----------------------- *)
\* pos_i2alt: altitude above the reference surface of a position
pos_i2alt(p) == p[2]

\* |rocket_pos_l - launch_site_pos_l|^2 ; the code compares the norm with
\* rail_length, which for rail_length >= 0 is the comparison of the squares
flight_distance_sq(p, salt) == p[1] * p[1] + (p[2] - salt) * (p[2] - salt)

(* ------------------------------ fdot ---------------------------------- *)
\* the MOTOR section's else-branch: burn_out after an evaluation at time t
fdot_burn_out(bo, t) == IF t < BurnEnd THEN bo ELSE TRUE

\* the ACCELERATIONS section: rotational acceleration in body coordinates
fdot_wdot_b_bad(rail, M, w, ixx, iyy, izz) ==
    << (M[1] + (iyy - izz) * w[2] * w[3]) \div ixx,
       (M[2] + (izz - ixx) * w[3] * w[1]) \div iyy,
       (M[3] + (ixx - iyy) * w[1] * w[2]) \div izz >>
fdot_wdot_b(rail, M, w, ixx, iyy, izz) ==
    IF rail
    THEN Zero3
    ELSE << (M[1] + (iyy - izz) * w[2] * w[3]) \div ixx,
            (M[2] + (izz - ixx) * w[3] * w[1]) \div iyy,
            (M[3] + (ixx - iyy) * w[1] * w[2]) \div izz >>

(* --------------------------- check_phase ------------------------------ *)
RailCleared_bad(p, salt, rl) == flight_distance_sq(p, salt) > rl * rl
RailCleared(p, salt, rl) == flight_distance_sq(p, salt) >= rl * rl

PollDue_bad(watch, t, interval) == watch <= t - interval
PollDue(watch, t, interval) == watch < t - interval

Descended_bad(rec, cur) == rec >= cur
Descended(rec, cur) == rec > cur

\* on_rail after the rail check
check_phase_on_rail(rail, p, salt, rl) ==
    IF rail /\ RailCleared(p, salt, rl) THEN FALSE ELSE rail

\* does this call deploy the parachute
check_phase_deploys(dep, watch, t, rec, p) ==
    /\ ~dep
    /\ PollDue(watch, t, AltPollInterval)
    /\ Descended(rec, pos_i2alt(p))

\* does this call poll without deploying
check_phase_repolls(dep, watch, t, rec, p) ==
    /\ ~dep
    /\ PollDue(watch, t, AltPollInterval)
    /\ ~Descended(rec, pos_i2alt(p))

check_phase_deployed_bad(dep, watch, t, rec, p) ==
    check_phase_deploys(dep, watch, t, rec, p)
check_phase_deployed(dep, watch, t, rec, p) ==
    dep \/ check_phase_deploys(dep, watch, t, rec, p)

check_phase_events_bad(rail, dep, watch, t, rec, p, salt, rl) ==
    (IF RailCleared(p, salt, rl) THEN <<"Cleared rail">> ELSE <<>>)
    \o (IF check_phase_deploys(dep, watch, t, rec, p)
        THEN <<"Parachute deployed">> ELSE <<>>)
check_phase_events(rail, dep, watch, t, rec, p, salt, rl) ==
    (IF rail /\ RailCleared(p, salt, rl) THEN <<"Cleared rail">> ELSE <<>>)
    \o (IF check_phase_deploys(dep, watch, t, rec, p)
        THEN <<"Parachute deployed">> ELSE <<>>)

(* ------------------ CylindricalMassModel (src/main.py) ---------------- *)
\* the largest query time drawn
MaxQueryT == 5

\* (time, mass, l, r) given to CylindricalMassModel.__init__
MassData ==
    << [time |-> <<1, 3>>,    mass |-> <<10, 6>>,   l |-> 6, r |-> 2],
       [time |-> <<0, 1, 2>>, mass |-> <<9, 7, 7>>, l |-> 6, r |-> 2],
       [time |-> <<2, 4>>,    mass |-> <<8, 4>>,    l |-> 12, r |-> 4] >>

Raised == [ok |-> FALSE, val |-> 0]
Returned(v) == [ok |-> TRUE, val |-> v]

\* scipy.interpolate.interp1d(time, mass): linear, fails outside the data
mass_interp(d, t) ==
    IF t < d.time[1] \/ t > d.time[Len(d.time)]
    THEN Raised
    ELSE LET i == CHOOSE k \in 1..(Len(d.time) - 1) :
                      d.time[k] <= t /\ t <= d.time[k + 1]
         IN  Returned(d.mass[i]
                      + ((d.mass[i + 1] - d.mass[i]) * (t - d.time[i]))
                          \div (d.time[i + 1] - d.time[i]))

mm_mass(d, t) ==
    IF t < 0
    THEN Raised
    ELSE IF t < d.time[1]
    THEN mass_interp(d, d.time[1])
    ELSE IF t < d.time[Len(d.time)]
    THEN mass_interp(d, t)
    ELSE mass_interp(d, d.time[Len(d.time)])

\* (1/2) * r**2 * m
IxxOf(d, m) == IF m.ok THEN Returned((d.r * d.r * m.val) \div 2) ELSE Raised
\* ((1/4)*r**2 + (1/12)*l**2) * m
IyyOf(d, m) ==
    IF m.ok THEN Returned(((3 * d.r * d.r + d.l * d.l) * m.val) \div 12)
    ELSE Raised

mm_ixx(d, t) ==
    IF t < 0
    THEN Raised
    ELSE IF t < d.time[1]
    THEN IxxOf(d, mm_mass(d, d.time[1]))
    ELSE IF t < d.time[Len(d.time)]
    THEN IxxOf(d, mm_mass(d, t))
    ELSE IxxOf(d, mm_mass(d, d.time[Len(d.time)]))

mm_iyy(d, t) ==
    IF t < 0
    THEN Raised
    ELSE IF t < d.time[1]
    THEN IyyOf(d, mm_mass(d, d.time[1]))
    ELSE IF t < d.time[Len(d.time)]
    THEN IyyOf(d, mm_mass(d, t))
    ELSE IyyOf(d, mm_mass(d, d.time[Len(d.time)]))

mm_izz(d, t) == mm_iyy(d, t)

mm_cog(d, t) == Returned(d.l \div 2)

MassIdle ==
    /\ mm_data = 1
    /\ mm_call = <<"none", 0>>
    /\ mm_result = Raised

MassInit ==
    /\ mm_data \in 1..Len(MassData)
    /\ mm_call = <<"none", 0>>
    /\ mm_result = Raised

QueryTimes == -2..MaxQueryT

CallMass ==
    \E t \in QueryTimes :
        /\ mm_call' = <<"mass", t>>
        /\ mm_result' = mm_mass(MassData[mm_data], t)
        /\ UNCHANGED <<mm_data, runVars, fdotVars, stepVars, heapVars, restVars>>

CallIxx ==
    \E t \in QueryTimes :
        /\ mm_call' = <<"ixx", t>>
        /\ mm_result' = mm_ixx(MassData[mm_data], t)
        /\ UNCHANGED <<mm_data, runVars, fdotVars, stepVars, heapVars, restVars>>

CallIyy ==
    \E t \in QueryTimes :
        /\ mm_call' = <<"iyy", t>>
        /\ mm_result' = mm_iyy(MassData[mm_data], t)
        /\ UNCHANGED <<mm_data, runVars, fdotVars, stepVars, heapVars, restVars>>

CallIzz ==
    \E t \in QueryTimes :
        /\ mm_call' = <<"izz", t>>
        /\ mm_result' = mm_izz(MassData[mm_data], t)
        /\ UNCHANGED <<mm_data, runVars, fdotVars, stepVars, heapVars, restVars>>

CallCog ==
    \E t \in QueryTimes :
        /\ mm_call' = <<"cog", t>>
        /\ mm_result' = mm_cog(MassData[mm_data], t)
        /\ UNCHANGED <<mm_data, runVars, fdotVars, stepVars, heapVars, restVars>>

(* ----------------- fdot: the ACCELERATIONS section -------------------- *)
\* largest force, moment and angular-rate component drawn
MaxF == 1

Dot(a, b) == a[1] * b[1] + a[2] * b[2] + a[3] * b[3]
Cross(a, b) ==
    << a[2] * b[3] - a[3] * b[2],
       a[3] * b[1] - a[1] * b[3],
       a[1] * b[2] - a[2] * b[1] >>
\* Rotation.apply: the matrix with columns m[1], m[2], m[3] times v
Apply(m, v) ==
    [i \in 1..3 |-> m[1][i] * v[1] + m[2][i] * v[2] + m[3][i] * v[3]]
\* np.linalg.norm of a vector whose length is a whole number
Norm(v) == CHOOSE n \in 0..(3 * MaxF + 3) : n * n = Dot(v, v)

\* acc_i as returned: F_i_total / mass, kept only along the body x axis on
\* the rail
fdot_acc_i_bad(rail, F_i, F_b, mass, b2i) ==
    LET F_i_total == [i \in 1..3 |-> F_i[i] + Apply(b2i, F_b)[i]]
    IN  [i \in 1..3 |-> F_i_total[i] \div mass]
fdot_acc_i(rail, F_i, F_b, mass, b2i) ==
    LET F_i_total == [i \in 1..3 |-> F_i[i] + Apply(b2i, F_b)[i]]
        acc_i == [i \in 1..3 |-> F_i_total[i] \div mass]
        xb_raw == Apply(b2i, <<1, 0, 0>>)
        xb_i == [i \in 1..3 |-> xb_raw[i] \div Norm(xb_raw)]
    IN  IF rail
        THEN [i \in 1..3 |-> Dot(acc_i, xb_i) * xb_i[i]]
        ELSE acc_i

\* body-to-inertial rotations drawn: the columns are the body axes
Rotations ==
    { << <<1, 0, 0>>, <<0, 1, 0>>, <<0, 0, 1>> >>,
      << <<0, 0, 1>>, <<0, 1, 0>>, <<-1, 0, 0>> >>,
      << <<0, 1, 0>>, <<-1, 0, 0>>, <<0, 0, 1>> >>,
      << <<0, 0, -1>>, <<1, 0, 0>>, <<0, -1, 0>> >> }

Vec3(n) == (-n..n) \X (-n..n) \X (-n..n)

FdotIdle ==
    /\ fd_in = [rail |-> TRUE, F_i |-> Zero3, F_b |-> Zero3, M_b |-> Zero3,
                w_b |-> Zero3, b2i |-> << <<1, 0, 0>>, <<0, 1, 0>>, <<0, 0, 1>> >>]
    /\ fd_out = [called |-> FALSE, acc_i |-> Zero3, wdot_b |-> Zero3]

FdotInit ==
    /\ fd_in \in [rail : BOOLEAN, F_i : Vec3(MaxF),
                  F_b : {<<f, 0, 0>> : f \in 0..MaxF},
                  M_b : {<<0, m, 0>> : m \in -MaxF..MaxF},
                  w_b : {<<0, 0, w>> : w \in 0..MaxF},
                  b2i : Rotations]
    /\ fd_out = [called |-> FALSE, acc_i |-> Zero3, wdot_b |-> Zero3]

\* fdot on the drawn inputs, with unit mass and unit moments of inertia
FdotEval ==
    /\ ~fd_out.called
    /\ fd_out' = [called |-> TRUE,
                  acc_i |-> fdot_acc_i(fd_in.rail, fd_in.F_i, fd_in.F_b, 1,
                                       fd_in.b2i),
                  wdot_b |-> fdot_wdot_b(fd_in.rail, fd_in.M_b, fd_in.w_b,
                                         1, 1, 1)]
    /\ UNCHANGED <<fd_in, runVars, massVars, stepVars, heapVars, restVars>>

(* ---------------- Rocket.step, first simulator (src/main.py) ---------- *)
\* sf, the safety factor for h scaling, as SfNum / SfDen
SfNum == 98
SfDen == 100
\* step() calls made
MaxCalls == 4
\* self.h at construction, in hundredths of a tick
StartH == 100
\* largest change of the position coordinate in one step
MaxDelta == 1

\* a numpy float64: a finite number, inf or nan
Finite(v) == [fin |-> "finite", val |-> v]
Infinity == [fin |-> "inf", val |-> 0]
NaN == [fin |-> "nan", val |-> 0]

\* err of a call as its fifth root num/den. err is the largest of the signed
\* scaled differences (v - v_) / scale, so it may be negative (root -1), 0
\* when no component differs, nan (<<0, 0>>), or positive: 1/32, 1 or 32
ErrRoots == { <<0 - 1, 1>>, <<0, 1>>, <<1, 2>>, <<1, 1>>, <<2, 1>> }
ErrAboveOne(e) == e[1] > e[2]

\* err of a call made with step size h: once h is not finite the new v and
\* v_ are nan and so is err
step_err(h) == IF h.fin = "finite" THEN ErrRoots ELSE {<<0, 0>>}

\* self.h = sf * self.h * pow(err, -1/5) on float64: pow(0, -1/5) is inf,
\* pow of a negative or nan err is nan, and 0 * inf is nan
step_h(h, e) ==
    IF h.fin = "nan" \/ e = <<0, 0>> \/ e[1] < 0
    THEN NaN
    ELSE IF e[1] = 0
    THEN (IF h.fin = "finite" /\ h.val = 0 THEN NaN ELSE Infinity)
    ELSE IF h.fin = "inf"
    THEN Infinity
    ELSE Finite((SfNum * h.val * e[2]) \div (SfDen * e[1]))

\* self.time after step(): self.time += self.h, whatever err is
step_time(t, h, variable, e) ==
    IF t.fin = "nan" \/ h.fin = "nan"
    THEN NaN
    ELSE IF t.fin = "inf" \/ h.fin = "inf"
    THEN Infinity
    ELSE Finite(t.val + h.val)

\* self.pos after step() with step size h, moved by d: with h not finite the
\* sum b[0]*l_1 + b[1]*l_2 + ... has the term 0 * inf and is nan
step_pos(pos, h, d) ==
    IF pos.fin = "finite" /\ h.fin = "finite"
    THEN Finite(pos.val + d)
    ELSE NaN

StepIdle ==
    /\ st_time = Finite(0)
    /\ st_h = Finite(0)
    /\ st_pos = Finite(0)
    /\ st_variable = FALSE
    /\ st_err = <<1, 1>>
    /\ st_calls = 0

StepInit ==
    /\ st_time = Finite(0)
    /\ st_h = Finite(StartH)
    /\ st_pos = Finite(0)
    /\ st_variable \in BOOLEAN
    /\ st_err = <<1, 1>>
    /\ st_calls = 0

\* one call of step(): the new v and r are computed and assigned, the time
\* is advanced, and in the adaptive configuration h is rescaled from err
LegacyStep ==
    /\ st_calls < MaxCalls
    /\ \E d \in -MaxDelta..MaxDelta, e \in step_err(st_h) :
          /\ st_time' = step_time(st_time, st_h, st_variable, e)
          /\ st_pos' = step_pos(st_pos, st_h, d)
          /\ st_err' = IF st_variable THEN e ELSE st_err
          /\ st_h' = IF st_variable THEN step_h(st_h, e) ELSE st_h
    /\ st_calls' = st_calls + 1
    /\ UNCHANGED <<st_variable, runVars, massVars, fdotVars, heapVars,
                   restVars>>

(* --------------- Rocket.__init__: default arguments ------------------- *)
\* rockets constructed
MaxRockets == 2
\* largest factor written into env_vars
MaxFactor == 2

\* the objects the def statement builds once, when the class body runs:
\* identity 1 is the errors dict, identity 2 the Parachute(0,0,0,0,0,0)
DefaultErrors == 1
DefaultParachute == 2
ErrorKeys == {"gravity", "pressure", "density", "speed_of_sound"}
FreshErrors == [k \in ErrorKeys |-> 1]
FreshParachute == [main_c_d |-> 0]

\* the object a parameter is bound to: the caller's, or the default's
BindDefault(given, default, fresh) == IF given = 0 THEN default ELSE given

HeapIdle ==
    /\ heap = <<>>
    /\ rockets = <<>>
    /\ touched = {}

HeapInit ==
    /\ heap = <<FreshErrors, FreshParachute>>
    /\ rockets = <<>>
    /\ touched = {}

\* Rocket(...) with or without its own errors dict: self.env_vars = errors,
\* self.parachute = parachute
Construct ==
    /\ Len(rockets) < MaxRockets
    /\ \E own \in BOOLEAN :
          LET fresh == IF own THEN Len(heap) + 1 ELSE 0
              next == Len(heap) + 1
          IN  /\ heap' = IF own THEN Append(heap, FreshErrors) ELSE heap
              /\ rockets' = Append(rockets,
                    [env_vars |-> BindDefault(fresh, DefaultErrors, next),
                     parachute |-> BindDefault(0, DefaultParachute, next),
                     defaults |-> ~own])
    /\ UNCHANGED <<touched, runVars, massVars, fdotVars, stepVars, restVars>>

\* rocket.env_vars[key] = v
SetEnvVar ==
    \E i \in 1..Len(rockets), k \in ErrorKeys, v \in 1..MaxFactor :
        /\ heap' = [heap EXCEPT ![rockets[i].env_vars][k] = v]
        /\ touched' = touched \cup {i}
        /\ UNCHANGED <<rockets, runVars, massVars, fdotVars, stepVars, restVars>>

\* rocket.parachute.main_c_d = v
SetParachute ==
    \E i \in 1..Len(rockets), v \in 0..MaxFactor :
        /\ heap' = [heap EXCEPT ![rockets[i].parachute].main_c_d = v]
        /\ touched' = touched \cup {i}
        /\ UNCHANGED <<rockets, runVars, massVars, fdotVars, stepVars, restVars>>

(* ------------------------------- run ---------------------------------- *)
\* while pos_i2alt(self.pos_i, self.time) >= 0 and self.time < max_time
while_condition_bad(p, t, max_time) == t < max_time
while_condition(p, t, max_time) == pos_i2alt(p) >= 0 /\ t < max_time

LoopCondition(p, t) == while_condition(p, t, MaxTime)

RunInit ==
    /\ pc = "start"
    /\ time = 0
    /\ site_alt \in 0..MaxSiteAlt
    /\ rail_length \in 1..MaxRail
    /\ pos_l = <<0, site_alt>>
    /\ w_b = Zero3
    /\ y_w = Zero3
    /\ on_rail = TRUE
    /\ burn_out = FALSE
    /\ parachute_deployed = FALSE
    /\ alt_record = site_alt
    /\ alt_poll_watch = AltPollInterval
    /\ events = <<>>
    /\ new_row = NoRow
    /\ record_len = 0
    /\ h_previous = 0
    /\ status = "running"
    /\ variable_time \in BOOLEAN
    /\ rocket_h \in 1..MaxH

\* largest time of the trial evaluation of the integrator's constructor
MaxH0 == 5

\* run(): building fn and the integrator; DOP853's constructor evaluates
\* fdot at t = 0 and, to select the first step, at a later trial time
RunStart ==
    /\ pc = "start"
    /\ \E h0 \in 1..MaxH0 :
          burn_out' = fdot_burn_out(fdot_burn_out(burn_out, 0), h0)
    /\ y_w' = w_b
    /\ pc' = "loop"
    /\ UNCHANGED <<time, pos_l, w_b, on_rail, parachute_deployed, alt_record,
                   alt_poll_watch, events, new_row, record_len, h_previous,
                   status, variable_time, rocket_h, site_alt, rail_length>>
    /\ UNCHANGED otherVars

\* the while condition
LoopTest ==
    /\ pc = "loop"
    /\ pc' = IF LoopCondition(pos_l, time) THEN "phase" ELSE "done"
    /\ UNCHANGED <<time, pos_l, w_b, y_w, on_rail, burn_out, parachute_deployed,
                   alt_record, alt_poll_watch, events, new_row, record_len,
                   h_previous, status, variable_time, rocket_h, site_alt,
                   rail_length>>
    /\ UNCHANGED otherVars

\* events = self.check_phase(debug=debug)
CheckPhase ==
    /\ pc = "phase"
    /\ on_rail' = check_phase_on_rail(on_rail, pos_l, site_alt, rail_length)
    /\ parachute_deployed' =
          check_phase_deployed(parachute_deployed, alt_poll_watch, time,
                               alt_record, pos_l)
    /\ w_b' = IF check_phase_deploys(parachute_deployed, alt_poll_watch, time,
                                     alt_record, pos_l)
              THEN Zero3 ELSE w_b
    /\ alt_poll_watch' =
          IF check_phase_repolls(parachute_deployed, alt_poll_watch, time,
                                 alt_record, pos_l)
          THEN time ELSE alt_poll_watch
    /\ alt_record' =
          IF check_phase_repolls(parachute_deployed, alt_poll_watch, time,
                                 alt_record, pos_l)
          THEN pos_i2alt(pos_l) ELSE alt_record
    /\ events' = check_phase_events(on_rail, parachute_deployed, alt_poll_watch,
                                    time, alt_record, pos_l, site_alt,
                                    rail_length)
    /\ pc' = "step"
    /\ UNCHANGED <<time, pos_l, y_w, burn_out, new_row, record_len, h_previous,
                   status, variable_time, rocket_h, site_alt, rail_length>>
    /\ UNCHANGED otherVars

\* the accepted states the integrator can move to from p in one step
Reachable(p) ==
    { q \in Downrange \X (-1..MaxZ) :
        /\ q[1] - p[1] \in -1..1
        /\ q[2] - p[2] \in -1..1 }

\* integrator.step() raises RuntimeError unless the solver is running
step_raises_bad(st) == FALSE
step_raises(st) == st # "running"

\* the end time the integrator is constructed with, in ticks of 200 s
t_bound == 5

\* integrator.t after an accepted step of size hs: the solver never steps
\* past its end time
step_t(t, hs) == IF t + hs > t_bound THEN t_bound ELSE t + hs

\* integrator.status after an accepted step that ended at t_new
step_status(t_new) == IF t_new >= t_bound THEN "finished" ELSE "running"

\* the first trial step: integrator.h_abs = self.h when variable_time is
\* False, otherwise the step the integrator carried over
first_trial(variable, hcfg, hr) == variable \/ hr = hcfg

\* self.h after the step: integrator.h_previous only when variable_time
step_rocket_h(variable, hcfg, hprev) == IF variable THEN hprev ELSE hcfg

\* integrator.step() succeeding, and the rest of the loop body.  DOP853
\* tries a step, evaluates fdot up to its end time, and on rejection retries
\* with a smaller step hs; hr is the largest rejected trial (0: none).  The
\* times followed here are seconds, far below the integrator's end time.
IntegratorStep ==
    /\ pc = "step"
    /\ ~step_raises(status)
    /\ \E hs \in 1..MaxH, hr \in 0..MaxH, q \in Reachable(pos_l),
          m \in PitchMoments :
          /\ hr = 0 \/ hr > hs
          /\ first_trial(variable_time, rocket_h, IF hr = 0 THEN hs ELSE hr)
          /\ LET wdot == fdot_wdot_b(on_rail, <<0, m, 0>>, y_w, 1, 1, 1)
                 w_new == [i \in 1..3 |-> y_w[i] + hs * wdot[i]]
                 bo_trial == IF hr = 0 THEN burn_out
                             ELSE fdot_burn_out(burn_out, time + hr)
             IN  /\ w_new[2] \in PitchRates
                 /\ burn_out' = fdot_burn_out(bo_trial, time + hs)
                 /\ y_w' = w_new
                 /\ w_b' = w_new
                 /\ pos_l' = q
                 /\ time' = time + hs
                 /\ h_previous' = hs
                 /\ rocket_h' = step_rocket_h(variable_time, rocket_h, hs)
                 /\ new_row' = [time |-> time + hs, pos_l |-> q,
                                 w_b |-> w_new, events |-> events]
                 /\ record_len' = record_len + 1
    /\ pc' = "loop"
    /\ UNCHANGED <<on_rail, parachute_deployed, alt_record, alt_poll_watch,
                   events, status, variable_time, site_alt, rail_length>>
    /\ UNCHANGED otherVars

\* integrator.step() failing (no trial step was accepted): the solver keeps
\* t and y, sets status to "failed" and returns; the loop body goes on
IntegratorFail ==
    /\ pc = "step"
    /\ ~step_raises(status)
    /\ \E hr \in 1..MaxH :
          /\ first_trial(variable_time, rocket_h, hr)
          /\ burn_out' = fdot_burn_out(burn_out, time + hr)
    /\ status' = "failed"
    /\ w_b' = y_w
    /\ rocket_h' = step_rocket_h(variable_time, rocket_h, h_previous)
    /\ new_row' = [time |-> time, pos_l |-> pos_l, w_b |-> y_w,
                    events |-> events]
    /\ record_len' = record_len + 1
    /\ pc' = "loop"
    /\ UNCHANGED <<time, pos_l, y_w, on_rail, parachute_deployed, alt_record,
                   alt_poll_watch, events, h_previous, variable_time, site_alt,
                   rail_length>>
    /\ UNCHANGED otherVars

\* integrator.step() on a solver that is not running: RuntimeError leaves run()
StepRaises ==
    /\ pc = "step"
    /\ step_raises(status)
    /\ pc' = "raised"
    /\ UNCHANGED <<time, pos_l, w_b, y_w, on_rail, burn_out, parachute_deployed,
                   alt_record, alt_poll_watch, events, new_row, record_len,
                   h_previous, status, variable_time, rocket_h, site_alt,
                   rail_length>>
    /\ UNCHANGED otherVars

\* no Rocket is running
RunIdle ==
    /\ pc = "idle"
    /\ time = 0
    /\ site_alt = 0
    /\ rail_length = 0
    /\ pos_l = <<0, 0>>
    /\ w_b = Zero3
    /\ y_w = Zero3
    /\ on_rail = TRUE
    /\ burn_out = FALSE
    /\ parachute_deployed = FALSE
    /\ alt_record = 0
    /\ alt_poll_watch = 0
    /\ events = <<>>
    /\ new_row = NoRow
    /\ record_len = 0
    /\ h_previous = 0
    /\ status = "running"
    /\ variable_time = TRUE
    /\ rocket_h = 0

(* ------------- run(): the record, to_json and from_json --------------- *)
\* run(max_time) arguments tried
MaxRunTime == 6

\* inertial x coordinates of the launch point
LaunchX == {0, 12, 120}

Columns == {"time", "pos_i", "vel_i"}

NoFile == [written |-> FALSE, text |-> <<>>]
NoFrame == [read |-> FALSE, rows |-> <<>>]

\* record = record.append(new_row, ignore_index=True)
record_append_bad(rec, row) ==
    IF rec = <<>> THEN <<row>> ELSE [rec EXCEPT ![Len(rec)] = row]
record_append(rec, row) == Append(rec, row)

\* record.to_dict(orient="list"): one list per column; no column at all
\* for the frame no row was ever appended to
to_dict_list(rec) ==
    IF rec = <<>> THEN [c \in {} |-> <<>>]
    ELSE [c \in Columns |-> [i \in 1..Len(rec) |-> rec[i][c]]]

DigitChar == <<"0", "1", "2", "3", "4", "5", "6", "7", "8", "9">>
DigitValue(ch) == CHOOSE d \in 0..9 : DigitChar[d + 1] = ch

RECURSIVE json_digits(_)
json_digits(n) ==
    IF n < 10 THEN <<DigitChar[n + 1]>>
    ELSE Append(json_digits(n \div 10), DigitChar[(n % 10) + 1])

\* json.dump of one number: its sign and decimal digits
json_number_bad(n) == json_digits(IF n < 0 THEN -n ELSE n)
json_number(n) == IF n < 0 THEN <<"-">> \o json_digits(-n) ELSE json_digits(n)

RECURSIVE json_parse_digits(_)
json_parse_digits(txt) ==
    IF Len(txt) = 1 THEN DigitValue(txt[1])
    ELSE 10 * json_parse_digits(SubSeq(txt, 1, Len(txt) - 1))
         + DigitValue(txt[Len(txt)])

\* json.load of one number
json_parse_number(txt) ==
    IF txt[1] = "-" THEN 0 - json_parse_digits(Tail(txt))
    ELSE json_parse_digits(txt)

\* json.dump(dict, write_file): "time" is a list of numbers, the other
\* columns are lists of lists of numbers
json_dump(d) ==
    [c \in DOMAIN d |->
        IF c = "time" THEN [i \in 1..Len(d[c]) |-> json_number(d[c][i])]
        ELSE [i \in 1..Len(d[c]) |->
                 [k \in 1..Len(d[c][i]) |-> json_number(d[c][i][k])]]]

\* json.load(read_file)
json_load(txt) ==
    [c \in DOMAIN txt |->
        IF c = "time" THEN [i \in 1..Len(txt[c]) |-> json_parse_number(txt[c][i])]
        ELSE [i \in 1..Len(txt[c]) |->
                 [k \in 1..Len(txt[c][i]) |-> json_parse_number(txt[c][i][k])]]]

\* pd.DataFrame.from_dict(dict, orient="columns")
from_dict_columns(d) ==
    IF DOMAIN d = {} THEN <<>>
    ELSE LET n == Len(d[CHOOSE c \in DOMAIN d : TRUE])
         IN  [i \in 1..n |-> [c \in DOMAIN d |-> d[c][i]]]

RecIdle ==
    /\ rc_pc = "idle"
    /\ rc_time = 0
    /\ rc_pos_i = <<0, 0>>
    /\ rc_vel_i = <<0, 0>>
    /\ rc_status = "running"
    /\ rc_max_time = 0
    /\ record = <<>>
    /\ json_file = NoFile
    /\ imported = NoFrame

\* run(max_time, to_json=path) entered: record = pd.DataFrame({})
RecInit ==
    /\ rc_pc = "run"
    /\ rc_time = 0
    /\ rc_pos_i \in LaunchX \X {0}
    /\ rc_vel_i = <<0, 0>>
    /\ rc_status = "running"
    /\ rc_max_time \in 0..MaxRunTime
    /\ record = <<>>
    /\ json_file = NoFile
    /\ imported = NoFrame

\* one iteration of the while loop with an accepted step; the step that
\* reaches the integrator's end time leaves its status "finished"
RecStep ==
    /\ rc_pc = "run"
    /\ while_condition(rc_pos_i, rc_time, rc_max_time)
    /\ ~step_raises(rc_status)
    /\ \E hs \in 1..MaxH, dz \in -1..1 :
          /\ rc_pos_i[2] + dz \in -1..MaxZ
          /\ rc_time' = step_t(rc_time, hs)
          /\ rc_status' = step_status(step_t(rc_time, hs))
          /\ rc_pos_i' = <<rc_pos_i[1], rc_pos_i[2] + dz>>
          /\ rc_vel_i' = <<0, dz>>
          /\ record' = record_append(record,
                           [time |-> step_t(rc_time, hs),
                            pos_i |-> <<rc_pos_i[1], rc_pos_i[2] + dz>>,
                            vel_i |-> <<0, dz>>])
    /\ UNCHANGED <<rc_pc, rc_max_time, json_file, imported>>
    /\ UNCHANGED notRecVars

\* one iteration of the while loop whose integrator.step() fails
RecStepFail ==
    /\ rc_pc = "run"
    /\ while_condition(rc_pos_i, rc_time, rc_max_time)
    /\ ~step_raises(rc_status)
    /\ rc_status' = "failed"
    /\ record' = record_append(record,
                     [time |-> rc_time, pos_i |-> rc_pos_i, vel_i |-> rc_vel_i])
    /\ UNCHANGED <<rc_pc, rc_time, rc_pos_i, rc_vel_i, rc_max_time, json_file,
                   imported>>
    /\ UNCHANGED notRecVars

\* the iteration after a failed step or after the integrator finished:
\* integrator.step() raises
RecRaise ==
    /\ rc_pc = "run"
    /\ while_condition(rc_pos_i, rc_time, rc_max_time)
    /\ step_raises(rc_status)
    /\ rc_pc' = "raised"
    /\ UNCHANGED <<rc_time, rc_pos_i, rc_vel_i, rc_status, rc_max_time, record,
                   json_file, imported>>
    /\ UNCHANGED notRecVars

\* the loop ends; the JSON export; return record
RecReturn ==
    /\ rc_pc = "run"
    /\ ~while_condition(rc_pos_i, rc_time, rc_max_time)
    /\ json_file' = [written |-> TRUE, text |-> json_dump(to_dict_list(record))]
    /\ rc_pc' = "returned"
    /\ UNCHANGED <<rc_time, rc_pos_i, rc_vel_i, rc_status, rc_max_time, record,
                   imported>>
    /\ UNCHANGED notRecVars

\* from_json(path) on the exported file
FromJson ==
    /\ rc_pc = "returned"
    /\ json_file.written
    /\ imported' = [read |-> TRUE,
                    rows |-> from_dict_columns(json_load(json_file.text))]
    /\ rc_pc' = "imported"
    /\ UNCHANGED <<rc_time, rc_pos_i, rc_vel_i, rc_status, rc_max_time, record,
                   json_file>>
    /\ UNCHANGED notRecVars

(* ------------------------- validate_lat_long -------------------------- *)
\* angles are integers, in units of 0.00001 degree
Deg == 100000

\* inputs: multiples of 45 degrees up to MaxOctants of them either way, and
\* one degree or a few units off them, the half of 0.0001 included
MaxOctants == 8
Offsets == {-Deg, -5, -4, 0, 4, 5, Deg}

abs(x) == IF x < 0 THEN 0 - x ELSE x
sign(x) == IF x < 0 THEN -1 ELSE IF x > 0 THEN 1 ELSE 0

\* round(x, 4), as the set of values it can return: the nearest multiple of
\* 0.0001; for x half way between two multiples the result is decided by the
\* binary double standing for x, which lies on either side of the tie
round4(x) ==
    LET q == x \div 10
        r == x % 10
    IN  IF r < 5 THEN {10 * q}
        ELSE IF r > 5 THEN {10 * (q + 1)}
        ELSE {10 * q, 10 * (q + 1)}

\* the pairs validate_lat_long(lat, long) can return
validate_lat_long(lat, long) ==
    LET over == abs(lat) > 90 * Deg
        lat1 == IF over THEN sign(lat) * (180 * Deg - abs(lat)) ELSE lat
        long1 == IF over THEN long + 180 * Deg ELSE long
        long2 == IF long1 < 0 THEN long1 + 360 * Deg ELSE long1
        long3 == long2 % (360 * Deg)
    IN  [lat : round4(lat1), long : round4(long3)]

LatLongInputs ==
    { 45 * Deg * k + o : k \in (0 - MaxOctants)..MaxOctants, o \in Offsets }

LlIdle ==
    /\ ll_in = [lat |-> 0, long |-> 0]
    /\ ll_out = [called |-> FALSE, lat |-> 0, long |-> 0]

LlInit ==
    /\ ll_in \in [lat : LatLongInputs, long : LatLongInputs]
    /\ ll_out = [called |-> FALSE, lat |-> 0, long |-> 0]

CallValidateLatLong ==
    /\ ~ll_out.called
    /\ \E r \in validate_lat_long(ll_in.lat, ll_in.long) :
          ll_out' = [called |-> TRUE, lat |-> r.lat, long |-> r.long]
    /\ UNCHANGED ll_in
    /\ UNCHANGED notLlVars

(* ------------- frame transforms, first simulator (src/main.py) -------- *)
\* Angles are whole quarter turns, so that every sine and cosine is -1, 0 or
\* 1 and the rotation matrices are exact.  Velocities are in units of
\* ang_vel_earth metres per second.
r_earth == 6378137

\* largest angle drawn, in quarter turns
MaxQuarter == 3

cosq(k) ==
    LET m == ((k % 4) + 4) % 4
    IN  IF m = 0 THEN 1 ELSE IF m = 2 THEN -1 ELSE 0
sinq(k) ==
    LET m == ((k % 4) + 4) % 4
    IN  IF m = 1 THEN 1 ELSE IF m = 3 THEN -1 ELSE 0

\* np.matmul of two 3x3 matrices (rows first), transpose, matrix times vector
matmul(a, b) ==
    [i \in 1..3 |-> [j \in 1..3 |->
        a[i][1] * b[1][j] + a[i][2] * b[2][j] + a[i][3] * b[3][j]]]
transpose(a) == [i \in 1..3 |-> [j \in 1..3 |-> a[j][i]]]
matvec(a, v) == [i \in 1..3 |-> Dot(a[i], v)]
Identity3 == <<<<1, 0, 0>>, <<0, 1, 0>>, <<0, 0, 1>>>>

rot_matrix(orientation, inverse) ==
    LET o == IF inverse THEN [i \in 1..3 |-> 0 - orientation[i]]
             ELSE orientation
        r_x == << <<1, 0, 0>>,
                  <<0, cosq(o[3]), 0 - sinq(o[3])>>,
                  <<0, sinq(o[3]), cosq(o[3])>> >>
        r_y == << <<cosq(o[2]), 0, sinq(o[2])>>,
                  <<0, 1, 0>>,
                  <<0 - sinq(o[2]), 0, cosq(o[2])>> >>
        r_z == << <<cosq(o[1]), 0 - sinq(o[1]), 0>>,
                  <<sinq(o[1]), cosq(o[1]), 0>>,
                  <<0, 0, 1>> >>
    IN  IF inverse
        THEN transpose(matmul(transpose(r_z),
                              matmul(transpose(r_y), transpose(r_x))))
        ELSE matmul(r_z, matmul(r_y, r_x))

\* e_earth is 0, so N = r_earth / sqrt(1 - e*e*q*q) is r_earth.  tq is
\* time * ang_vel_earth, lat and longi are the site's angles.
pos_launch_to_inertial(position, site, tq) ==
    LET phi == site.lat
        lambada == site.longi
        h == site.alt
        position_rotated ==
            matvec(rot_matrix(<<0, 1 - phi, lambada>>, TRUE), position)
        N == r_earth
        X == (N + h) * cosq(phi) * cosq(lambada) + position_rotated[1]
        Y == (N + h) * cosq(phi) * sinq(lambada) + position_rotated[2]
        Z == (N + h) * sinq(phi) - position_rotated[3]
    IN  matvec(rot_matrix(<<tq, 0, 0>>, FALSE), <<X, Y, Z>>)

pos_inertial_to_launch(position, site, tq) ==
    LET phi == site.lat
        lambada == site.longi + tq
        h == site.alt
        N == r_earth
        X == position[1] - (N + h) * cosq(phi) * cosq(lambada)
        Y == position[2] - (N + h) * cosq(phi) * sinq(lambada)
        Z == position[3] - (N + h) * sinq(phi)
    IN  matvec(rot_matrix(<<tq, 1 - phi, lambada - tq>>, TRUE), <<X, Y, Z>>)

vel_inertial_to_launch(velocity, site, tq) ==
    LET launch_site_velocity == <<0, (r_earth + site.alt) * cosq(site.lat), 0>>
        inertial_rot_launch ==
            matvec(rot_matrix(<<tq + site.longi, site.lat, 0>>, TRUE), velocity)
    IN  [i \in 1..3 |-> inertial_rot_launch[i] - launch_site_velocity[i]]

vel_launch_to_inertial(velocity, site, tq, alt) ==
    LET launch_site_velocity == <<0, (r_earth + alt) * cosq(site.lat), 0>>
        launch_rot_inertial ==
            matvec(rot_matrix(<<tq + site.longi, 0, 0>>, FALSE), velocity)
    IN  [i \in 1..3 |-> launch_rot_inertial[i] + launch_site_velocity[i]]

NoTransform == [fn |-> "none", vec |-> Zero3, mat |-> Identity3]

TrIdle ==
    /\ tr_in = [vec |-> Zero3, lat |-> 0, longi |-> 0, alt |-> 0, tq |-> 0]
    /\ tr_out = NoTransform

TrInit ==
    /\ tr_in \in [vec : Vec3(MaxF), lat : -1..1, longi : 0..MaxQuarter,
                   alt : 0..MaxSiteAlt, tq : 0..MaxQuarter]
    /\ tr_out = NoTransform

\* pos_inertial_to_launch(pos_launch_to_inertial(x, site, t), site, t)
PosRoundTrip ==
    /\ tr_out' = [fn |-> "pos",
                  vec |-> pos_inertial_to_launch(
                              pos_launch_to_inertial(tr_in.vec, tr_in, tr_in.tq),
                              tr_in, tr_in.tq),
                  mat |-> Identity3]
    /\ UNCHANGED tr_in
    /\ UNCHANGED notTrVars

\* vel_inertial_to_launch(vel_launch_to_inertial(v, site, t, site.alt), site, t)
VelRoundTrip ==
    /\ tr_out' = [fn |-> "vel",
                  vec |-> vel_inertial_to_launch(
                              vel_launch_to_inertial(tr_in.vec, tr_in, tr_in.tq,
                                                     tr_in.alt),
                              tr_in, tr_in.tq),
                  mat |-> Identity3]
    /\ UNCHANGED tr_in
    /\ UNCHANGED notTrVars

\* rot_matrix(o, inverse=True) times rot_matrix(o), o = (tq, lat, longi)
RotRoundTrip ==
    /\ LET o == <<tr_in.tq, tr_in.lat, tr_in.longi>>
       IN  tr_out' = [fn |-> "rot",
                      vec |-> Zero3,
                      mat |-> matmul(rot_matrix(o, TRUE), rot_matrix(o, FALSE))]
    /\ UNCHANGED tr_in
    /\ UNCHANGED notTrVars

(* ------------------- run(): the orientation --------------------------- *)
\* iterations followed
MaxIter == 2

UnitAxes ==
    { <<1, 0, 0>>, <<-1, 0, 0>>, <<0, 1, 0>>, <<0, -1, 0>>, <<0, 0, 1>>,
      <<0, 0, -1>> }

ZeroMatrix == <<Zero3, Zero3, Zero3>>

\* A matrix whose entries are fractions is a record of whole numerators num,
\* by columns, over one denominator den, in lowest terms.
Ratio(m, d) ==
    LET RECURSIVE gcd(_, _)
        gcd(a, b) == IF b = 0 THEN (IF a < 0 THEN 0 - a ELSE a)
                     ELSE gcd(b, a % (IF b < 0 THEN 0 - b ELSE b))
        g == gcd(gcd(gcd(d, gcd(m[1][1], gcd(m[1][2], m[1][3]))),
                     gcd(m[2][1], gcd(m[2][2], m[2][3]))),
                 gcd(m[3][1], gcd(m[3][2], m[3][3])))
    IN  [num |-> [c \in 1..3 |-> [i \in 1..3 |-> m[c][i] \div g]],
         den |-> d \div g]

\* a matrix of whole numbers
Whole(m) == [num |-> m, den |-> 1]

\* Rotation.from_matrix(m) of a library that rejects a matrix whose
\* determinant is not positive (ValueError: non-positive determinant)
from_matrix_raises(m) == Dot(m.num[1], Cross(m.num[2], m.num[3])) <= 0

\* Rotation.from_matrix(m).as_matrix() of a library that approximates: the
\* quaternion is read off the matrix about its largest diagonal entry, or
\* off its trace when that is the largest, and is normalised; as_matrix() is
\* the rotation of that quaternion.  Entries that are equal here differ in
\* the program by the rounding of the arithmetic that produced them, so that
\* argmax falls on any of the largest: one result for each.  A rotation is
\* returned as it is, whichever entry is taken.  The library that rejects
\* gives the same for a rotation; a matrix of positive determinant that is
\* not a rotation arises below only from a self.b2i that was itself
\* approximated.
from_matrix(m) ==
    LET E(i, j) == m.num[j][i]
        tr == E(1, 1) + E(2, 2) + E(3, 3)
        decision == <<E(1, 1), E(2, 2), E(3, 3), tr>>
        choices == { c \in 1..4 : \A n \in 1..4 : decision[n] <= decision[c] }
        quat(i) ==
            IF i = 4
            THEN <<E(3, 2) - E(2, 3), E(1, 3) - E(3, 1), E(2, 1) - E(1, 2),
                   m.den + tr>>
            ELSE LET j == (i % 3) + 1
                     k == (j % 3) + 1
                 IN  [a \in 1..4 |->
                        IF a = i THEN m.den - tr + 2 * E(i, i)
                        ELSE IF a = j THEN E(j, i) + E(i, j)
                        ELSE IF a = k THEN E(k, i) + E(i, k)
                        ELSE E(k, j) - E(j, k)]
        as_matrix(q) ==
            LET x == q[1]
                y == q[2]
                z == q[3]
                w == q[4]
            IN  Ratio(<< <<x * x - y * y - z * z + w * w, 2 * (x * y + z * w),
                           2 * (x * z - y * w)>>,
                         <<2 * (x * y - z * w), w * w - x * x + y * y - z * z,
                           2 * (y * z + x * w)>>,
                         <<2 * (x * z + y * w), 2 * (y * z - x * w),
                           w * w - x * x - y * y + z * z>> >>,
                      x * x + y * y + z * z + w * w)
    IN  { as_matrix(quat(c)) : c \in choices }

\* one integrator step of the axis vectors under the angular velocity w_i:
\* each of xb, yb, zb obeys d(axis)/dt = cross(w_i, axis) (fdot, lines
\* 702-704), so the step turns it about w_i by the angle |w_i| * hs and leaves
\* its length as it is.  Angular rates are in quarter turns per tick and w_i
\* lies along a coordinate axis, which makes the turn exact (Rodrigues).
integrate_axes(y, w_i, hs) ==
    IF w_i = Zero3 THEN y
    ELSE LET k == Norm(w_i)
             e == [i \in 1..3 |-> w_i[i] \div k]
             n == k * hs
         IN  [c \in 1..3 |-> [i \in 1..3 |->
                 cosq(n) * y[c][i] + sinq(n) * Cross(e, y[c])[i]
                     + (1 - cosq(n)) * Dot(e, y[c]) * e[i]]]

\* b2imat of the iteration: the integrated axes while the parachute is not
\* deployed; afterwards x against the apparent wind, z the old body z, y
\* their cross product.  b2i and the result are matrices of fractions.
run_b2imat(deployed, y, b2i, v_rel_wind) ==
    IF ~deployed THEN Whole(y)
    ELSE LET n == Norm(v_rel_wind)
             x == [i \in 1..3 |-> (0 - v_rel_wind[i]) \div n]
             z == b2i.num[3]
         IN  Ratio(<<[i \in 1..3 |-> b2i.den * x[i]], Cross(z, x), z>>,
                   b2i.den)

OrIdle ==
    /\ or_y = ZeroMatrix
    /\ or_b2imat = Whole(ZeroMatrix)
    /\ or_b2i = Whole(ZeroMatrix)
    /\ or_deployed = FALSE
    /\ or_rows = 0
    /\ or_raised = FALSE

\* run() entered: fn[9:18] are the columns of self.b2i
OrInit ==
    /\ or_y \in Rotations
    /\ or_b2i = Whole(or_y)
    /\ or_b2imat = Whole(ZeroMatrix)
    /\ or_deployed = FALSE
    /\ or_rows = 0
    /\ or_raised = FALSE

\* angular velocities w_i the body is given in an iteration
TurnRates == { Zero3, <<0, 1, 0>>, <<0, 0, 1>> }

\* One iteration of the loop with the parachute not deployed.  The state is
\* copied from the integrator, b2imat is built and handed to
\* Rotation.from_matrix; when that raises, run() is left before self.b2i is
\* assigned and before the row is appended.
OrientArmed ==
    /\ or_rows < MaxIter
    /\ ~or_raised
    /\ ~or_deployed
    /\ \E w_i \in TurnRates :
          LET y_new == integrate_axes(or_y, w_i, 1)
              m == run_b2imat(FALSE, y_new, or_b2i, Zero3)
          IN  /\ or_y' = y_new
              /\ \E raised \in
                     (IF from_matrix_raises(m) THEN BOOLEAN ELSE {FALSE}) :
                    /\ or_raised' = raised
                    /\ or_b2imat' = IF raised THEN or_b2imat ELSE m
                    /\ or_b2i' \in
                           (IF raised THEN {or_b2i} ELSE from_matrix(m))
                    /\ or_rows' = IF raised THEN or_rows ELSE or_rows + 1
    /\ UNCHANGED or_deployed
    /\ UNCHANGED notOrVars

\* one iteration of the loop in which check_phase deploys the parachute,
\* or a later one; v is the velocity relative to the wind after the step.
\* With v along the z column of self.b2i the determinant of b2imat is 0: the
\* library then either approximates or raises.
OrientDeployed ==
    /\ or_rows < MaxIter
    /\ ~or_raised
    /\ or_deployed' = TRUE
    /\ \E w_i \in TurnRates, v \in UnitAxes :
          LET y_new == integrate_axes(or_y, w_i, 1)
              m == run_b2imat(TRUE, y_new, or_b2i, v)
          IN  /\ or_y' = y_new
              /\ \E raised \in
                     (IF from_matrix_raises(m) THEN BOOLEAN ELSE {FALSE}) :
                    /\ or_raised' = raised
                    /\ or_b2imat' = IF raised THEN or_b2imat ELSE m
                    /\ or_b2i' \in
                           (IF raised THEN {or_b2i} ELSE from_matrix(m))
                    /\ or_rows' = IF raised THEN or_rows ELSE or_rows + 1
    /\ UNCHANGED notOrVars

(* ---------------- fdot: AERODYNAMICS and MOTOR ------------------------ *)
\* largest airspeed drawn
MaxSpeed == 2

\* Parachute(main_s, main_c_d, drogue_s, drogue_c_d, main_alt, ...): none
\* (the default), main and drogue, drogue only
Parachutes ==
    { [main_s |-> 0, main_c_d |-> 0, drogue_s |-> 0, drogue_c_d |-> 0,
       main_alt |-> 0],
      [main_s |-> 2, main_c_d |-> 1, drogue_s |-> 1, drogue_c_d |-> 2,
       main_alt |-> 1],
      [main_s |-> 0, main_c_d |-> 0, drogue_s |-> 1, drogue_c_d |-> 2,
       main_alt |-> 0] }

\* the aerodynamic and motor data the evaluations use: coefficients CA and
\* CN, reference area, cop - cog, damping coefficients, ambient density;
\* thrust, motor.pos - cog and the propellant mass flow rate
AeroData ==
    [CA |-> 1, CN |-> 1, ref_area |-> 1, cop_cog |-> 1,
     roll_damping_coefficient |-> 1, pitch_damping_coefficient |-> 1,
     ambient_density |-> 4]
MotorData == [thrust |-> 2, pos_cog |-> 1, mdot |-> -1]

\* 0.5 * x for the even x that occur
Half(x) == x \div 2

Scale3(k, v) == [i \in 1..3 |-> k * v[i]]
Add3(a, b) == [i \in 1..3 |-> a[i] + b[i]]

\* Rotation.inv().apply: the transpose of the matrix with columns m[1..3]
ApplyInv(m, v) == <<Dot(m[1], v), Dot(m[2], v), Dot(m[3], v)>>

\* x / y of numpy numbers: with y = 0 the quotient is nan or inf and numpy
\* gives a RuntimeWarning, no exception.  The value is then left at 0 here
\* and the evaluation is marked nan (np_divide_nan).
np_divide(x, y) == IF y = 0 THEN 0 ELSE x \div y
np_divide_nan(y) == y = 0

\* Parachute.get(alt): <<c_d, s>>
parachute_get(par, alt) ==
    IF alt < par.main_alt THEN <<par.main_c_d, par.main_s>>
    ELSE <<par.drogue_c_d, par.drogue_s>>

\* the test that selects the parachute branch
fdot_parachute_branch(deployed, par) == deployed /\ par.main_c_d # 0

\* the test that selects the motor branch
fdot_motor_on_bad(t) == t <= BurnEnd
fdot_motor_on(t) == t < BurnEnd

\* F_parachute_i = -0.5 * q * ref_area * CD * v_relative_wind_i / air_speed
fdot_F_parachute_i(q, par, alt, v_relative_wind_i, air_speed) ==
    LET CD == parachute_get(par, alt)[1]
        ref_area == parachute_get(par, alt)[2]
    IN  [i \in 1..3 |->
            np_divide((0 - Half(q * ref_area * CD)) * v_relative_wind_i[i],
                      air_speed)]

\* the AERODYNAMICS and MOTOR sections of fdot
fdot_forces(t, in) ==
    LET v_relative_wind_b == ApplyInv(in.b2i, in.v_relative_wind_i)
        air_speed == Norm(v_relative_wind_b)
        rho == AeroData.ambient_density
        q == Half(rho * air_speed * air_speed)
        chute == fdot_parachute_branch(in.deployed, in.parachute)
        F_parachute_i ==
            IF chute
            THEN fdot_F_parachute_i(q, in.parachute, in.alt,
                                    in.v_relative_wind_i, air_speed)
            ELSE Zero3
        v_hat == [i \in 1..3 |-> np_divide(v_relative_wind_b[i], air_speed)]
        FA_b == Scale3(AeroData.CA * q * AeroData.ref_area,
                       <<0 - sign(v_relative_wind_b[1]), 0, 0>>)
        FN_b == Scale3(AeroData.CN * q * AeroData.ref_area,
                       Cross(<<1, 0, 0>>, Cross(<<1, 0, 0>>, v_hat)))
        F_aero_b == IF chute THEN Zero3 ELSE Add3(FA_b, FN_b)
        r_cop_cog_b == Scale3(AeroData.cop_cog, <<-1, 0, 0>>)
        M_aero_b == IF chute THEN Zero3 ELSE Cross(r_cop_cog_b, F_aero_b)
        M_aerodamping_b ==
            IF chute THEN Zero3
            ELSE << (0 - sign(in.w_b[1])) * rho * in.w_b[1] * in.w_b[1]
                        * AeroData.roll_damping_coefficient,
                    (0 - sign(in.w_b[2])) * rho * in.w_b[2] * in.w_b[2]
                        * AeroData.pitch_damping_coefficient,
                    (0 - sign(in.w_b[3])) * rho * in.w_b[3] * in.w_b[3]
                        * AeroData.pitch_damping_coefficient >>
        motor == fdot_motor_on(t)
        r_engine_cog_b == Scale3(MotorData.pos_cog, <<-1, 0, 0>>)
        F_thrust_b == IF motor THEN <<MotorData.thrust, 0, 0>> ELSE Zero3
        M_thrust_b == IF motor THEN Cross(r_engine_cog_b, F_thrust_b) ELSE Zero3
        M_jetdamping_b ==
            IF motor
            THEN Scale3(MotorData.mdot * MotorData.pos_cog * MotorData.pos_cog,
                        <<0, in.w_b[2], in.w_b[3]>>)
            ELSE Zero3
    IN  [called |-> TRUE,
         nan |-> np_divide_nan(air_speed),
         branch |-> IF chute THEN "parachute" ELSE "body",
         motor |-> motor,
         air_speed |-> air_speed,
         F_parachute_i |-> F_parachute_i,
         F_aero_b |-> F_aero_b,
         M_aero_b |-> M_aero_b,
         M_aerodamping_b |-> M_aerodamping_b,
         F_thrust_b |-> F_thrust_b,
         M_thrust_b |-> M_thrust_b,
         M_jetdamping_b |-> M_jetdamping_b,
         F_i |-> F_parachute_i,
         F_b |-> Add3(F_aero_b, F_thrust_b),
         M_b |-> Add3(Add3(M_aero_b, M_aerodamping_b),
                      Add3(M_thrust_b, M_jetdamping_b))]

NoForces ==
    [called |-> FALSE, nan |-> FALSE, branch |-> "none", motor |-> FALSE,
     air_speed |-> 0,
     F_parachute_i |-> Zero3, F_aero_b |-> Zero3, M_aero_b |-> Zero3,
     M_aerodamping_b |-> Zero3, F_thrust_b |-> Zero3, M_thrust_b |-> Zero3,
     M_jetdamping_b |-> Zero3, F_i |-> Zero3, F_b |-> Zero3, M_b |-> Zero3]

FfIdle ==
    /\ ff_in = [deployed |-> FALSE, parachute |-> FreshParachute, alt |-> 0,
                v_relative_wind_i |-> Zero3, b2i |-> ZeroMatrix, w_b |-> Zero3]
    /\ ff_time = 0
    /\ ff_out = NoForces
    /\ ff_burn_out = FALSE

FfInit ==
    /\ ff_in \in [deployed : BOOLEAN,
                   parachute : Parachutes,
                   alt : 0..MaxZ,
                   v_relative_wind_i :
                       { Scale3(k, a) : k \in 0..MaxSpeed, a \in UnitAxes },
                   b2i : Rotations,
                   w_b : { Zero3, <<0, 1, 0>> }]
    /\ ff_time = 0
    /\ ff_out = NoForces
    /\ ff_burn_out = FALSE

\* one evaluation of fdot at a time the integrator chooses
ForcesEval ==
    /\ \E t \in 0..MaxTime :
          /\ ff_time' = t
          /\ ff_out' = fdot_forces(t, ff_in)
          /\ ff_burn_out' = fdot_burn_out(ff_burn_out, t)
    /\ UNCHANGED ff_in
    /\ UNCHANGED notFfVars

(* -------------- run(): the loop, statement by statement --------------- *)
\* largest max_time argument tried
MaxLoopTime == 6
\* fdot evaluations followed inside one integrator.step()
MaxEvals == 2

\* what one evaluation of fdot at time t leaves of the Rocket's attributes:
\* its only assignment to self is self.burn_out = True
fdot_self_bad(self, t) ==
    [self EXCEPT !.burn_out = fdot_burn_out(self.burn_out, t),
                 !.on_rail = IF t < BurnEnd THEN self.on_rail ELSE FALSE]
fdot_self(self, t) ==
    [self EXCEPT !.burn_out = fdot_burn_out(self.burn_out, t)]

\* does this check_phase call poll the altitude
check_phase_polls(self) ==
    ~self.parachute_deployed
        /\ PollDue(self.alt_poll_watch, self.time, AltPollInterval)

\* the Rocket's attributes after check_phase
check_phase_self(self, site) ==
    LET deploys == check_phase_deploys(self.parachute_deployed,
                       self.alt_poll_watch, self.time, self.alt_record,
                       self.pos_i)
        repolls == check_phase_repolls(self.parachute_deployed,
                       self.alt_poll_watch, self.time, self.alt_record,
                       self.pos_i)
    IN  [self EXCEPT
            !.on_rail = check_phase_on_rail(self.on_rail, self.pos_i, site.alt,
                                            site.rail_length),
            !.parachute_deployed =
                check_phase_deployed(self.parachute_deployed,
                    self.alt_poll_watch, self.time, self.alt_record,
                    self.pos_i),
            !.w_b = IF deploys THEN Zero3 ELSE self.w_b,
            !.alt_poll_watch = IF repolls THEN self.time
                               ELSE self.alt_poll_watch,
            !.alt_record = IF repolls THEN pos_i2alt(self.pos_i)
                           ELSE self.alt_record]

\* which branch of lines 812-837 fills b2imat
run_b2imat_source(deployed) == IF deployed THEN "wind" ELSE "axes"

\* new_row (the columns followed here) and record.append
run_new_row_bad(t, ev) == [time |-> t, events |-> <<>>]
run_new_row(t, ev) == [time |-> t, events |-> ev]

IterationOps == <<"check_phase", "step", "orient", "time", "append">>

LpIdle ==
    /\ lp_pc = "idle"
    /\ lp_self = [time |-> 0, pos_i |-> <<0, 0>>, w_b |-> Zero3,
                  on_rail |-> TRUE, burn_out |-> FALSE,
                  parachute_deployed |-> FALSE, alt_record |-> 0,
                  alt_poll_watch |-> 0]
    /\ lp_int = [t |-> 0, y |-> <<0, 0>>, y_w |-> Zero3, status |-> "none"]
    /\ lp_max_time = 0
    /\ lp_site = [alt |-> 0, rail_length |-> 0]
    /\ lp_events = <<>>
    /\ lp_b2imat = "none"
    /\ lp_evals = 0
    /\ lp_seen = {}
    /\ lp_ops = <<>>
    /\ lp_record = <<>>
    /\ lp_before = <<TRUE, FALSE>>
    /\ lp_changed = <<>>
    /\ lp_polls = <<>>

\* Rocket.__init__ has run and run(max_time) is entered
LpInit ==
    /\ lp_pc = "start"
    /\ lp_site \in [alt : 0..MaxSiteAlt, rail_length : 1..MaxRail]
    /\ lp_self = [time |-> 0, pos_i |-> <<0, lp_site.alt>>, w_b |-> Zero3,
                  on_rail |-> TRUE, burn_out |-> FALSE,
                  parachute_deployed |-> FALSE, alt_record |-> lp_site.alt,
                  alt_poll_watch |-> AltPollInterval]
    /\ lp_int = [t |-> 0, y |-> <<0, 0>>, y_w |-> Zero3, status |-> "none"]
    /\ lp_max_time \in 0..MaxLoopTime
    /\ lp_events = <<>>
    /\ lp_b2imat = "none"
    /\ lp_evals = 0
    /\ lp_seen = {}
    /\ lp_ops = <<>>
    /\ lp_record = <<>>
    /\ lp_before = <<TRUE, FALSE>>
    /\ lp_changed = <<>>
    /\ lp_polls = <<>>

\* lines 768-797: fn and the integrator are built; DOP853's constructor
\* evaluates fdot at t = 0 and at a later trial time
LpStart ==
    /\ lp_pc = "start"
    /\ \E h0 \in 1..MaxH0 :
          lp_self' = fdot_self(fdot_self(lp_self, 0), h0)
    /\ lp_int' = [t |-> 0, y |-> lp_self.pos_i, y_w |-> lp_self.w_b,
                  status |-> "running"]
    /\ lp_pc' = "test"
    /\ UNCHANGED <<lp_max_time, lp_site, lp_events, lp_b2imat, lp_evals,
                   lp_seen, lp_ops, lp_record, lp_before, lp_changed, lp_polls>>
    /\ UNCHANGED notLpVars

\* line 800: the while condition
LpTest ==
    /\ lp_pc = "test"
    /\ IF while_condition(lp_self.pos_i, lp_self.time, lp_max_time)
       THEN /\ lp_pc' = "phase"
            /\ lp_ops' = <<>>
            /\ lp_seen' = {}
            /\ lp_evals' = 0
            /\ lp_before' = <<lp_self.on_rail, lp_self.parachute_deployed>>
       ELSE /\ lp_pc' = "returned"
            /\ UNCHANGED <<lp_ops, lp_seen, lp_evals, lp_before>>
    /\ UNCHANGED <<lp_self, lp_int, lp_max_time, lp_site, lp_events, lp_b2imat,
                   lp_record, lp_changed, lp_polls>>
    /\ UNCHANGED notLpVars

\* line 805: events = self.check_phase(debug=debug)
LpCheckPhase ==
    /\ lp_pc = "phase"
    /\ lp_self' = check_phase_self(lp_self, lp_site)
    /\ lp_events' = check_phase_events(lp_self.on_rail,
                        lp_self.parachute_deployed, lp_self.alt_poll_watch,
                        lp_self.time, lp_self.alt_record, lp_self.pos_i,
                        lp_site.alt, lp_site.rail_length)
    /\ lp_polls' = IF check_phase_polls(lp_self)
                   THEN Append(lp_polls, lp_self.time) ELSE lp_polls
    /\ lp_ops' = Append(lp_ops, "check_phase")
    /\ lp_pc' = "step"
    /\ UNCHANGED <<lp_int, lp_max_time, lp_site, lp_b2imat, lp_evals, lp_seen,
                   lp_record, lp_before, lp_changed>>
    /\ UNCHANGED notLpVars

\* line 806: integrator.step() is called on a running solver
LpStepCall ==
    /\ lp_pc = "step"
    /\ ~step_raises(lp_int.status)
    /\ lp_ops' = Append(lp_ops, "step")
    /\ lp_pc' = "eval"
    /\ UNCHANGED <<lp_self, lp_int, lp_max_time, lp_site, lp_events, lp_b2imat,
                   lp_evals, lp_seen, lp_record, lp_before, lp_changed,
                   lp_polls>>
    /\ UNCHANGED notLpVars

\* line 806: integrator.step() is called on a solver that has failed or
\* finished: RuntimeError leaves run()
LpStepRaises ==
    /\ lp_pc = "step"
    /\ step_raises(lp_int.status)
    /\ lp_ops' = Append(lp_ops, "step")
    /\ lp_pc' = "raised"
    /\ UNCHANGED <<lp_self, lp_int, lp_max_time, lp_site, lp_events, lp_b2imat,
                   lp_evals, lp_seen, lp_record, lp_before, lp_changed,
                   lp_polls>>
    /\ UNCHANGED notLpVars

\* inside integrator.step(): one evaluation of fdot, for a stage of an
\* accepted or of a rejected trial, at a time up to the end of the trial
LpEval ==
    /\ lp_pc = "eval"
    /\ lp_evals < MaxEvals
    /\ \E tt \in lp_int.t..step_t(lp_int.t, MaxH) :
          lp_self' = fdot_self(lp_self, tt)
    /\ lp_seen' = lp_seen \cup {<<lp_self.on_rail, lp_self.parachute_deployed>>}
    /\ lp_evals' = lp_evals + 1
    /\ UNCHANGED <<lp_pc, lp_int, lp_max_time, lp_site, lp_events, lp_b2imat,
                   lp_ops, lp_record, lp_before, lp_changed, lp_polls>>
    /\ UNCHANGED notLpVars

\* integrator.step() returns with a trial accepted: t, the position and the
\* angular rate y[6:9], integrated from wdot_b under a pitch moment m, move
LpStepAccept ==
    /\ lp_pc = "eval"
    /\ lp_evals >= 1
    /\ \E hs \in 1..MaxH, q \in Reachable(lp_int.y), m \in PitchMoments :
          LET wdot == fdot_wdot_b(lp_self.on_rail, <<0, m, 0>>, lp_int.y_w,
                                  1, 1, 1)
              w_new == [i \in 1..3 |-> lp_int.y_w[i] + hs * wdot[i]]
          IN  /\ w_new[2] \in PitchRates
              /\ lp_int' = [t |-> step_t(lp_int.t, hs),
                            y |-> q,
                            y_w |-> w_new,
                            status |-> step_status(step_t(lp_int.t, hs))]
    /\ lp_pc' = "orient"
    /\ UNCHANGED <<lp_self, lp_max_time, lp_site, lp_events, lp_b2imat,
                   lp_evals, lp_seen, lp_ops, lp_record, lp_before, lp_changed,
                   lp_polls>>
    /\ UNCHANGED notLpVars

\* integrator.step() returns with no trial accepted
LpStepFail ==
    /\ lp_pc = "eval"
    /\ lp_evals >= 1
    /\ lp_int' = [lp_int EXCEPT !.status = "failed"]
    /\ lp_pc' = "orient"
    /\ UNCHANGED <<lp_self, lp_max_time, lp_site, lp_events, lp_b2imat,
                   lp_evals, lp_seen, lp_ops, lp_record, lp_before, lp_changed,
                   lp_polls>>
    /\ UNCHANGED notLpVars

\* lines 807-840: the state is copied from integrator.y and b2imat, self.b2i
\* and self.i2b are rebuilt
LpOrient ==
    /\ lp_pc = "orient"
    /\ lp_self' = [lp_self EXCEPT !.pos_i = lp_int.y, !.w_b = lp_int.y_w]
    /\ lp_b2imat' = run_b2imat_source(lp_self.parachute_deployed)
    /\ lp_ops' = Append(lp_ops, "orient")
    /\ lp_pc' = "time"
    /\ UNCHANGED <<lp_int, lp_max_time, lp_site, lp_events, lp_evals, lp_seen,
                   lp_record, lp_before, lp_changed, lp_polls>>
    /\ UNCHANGED notLpVars

\* line 842: self.time = integrator.t
LpTime ==
    /\ lp_pc = "time"
    /\ lp_self' = [lp_self EXCEPT !.time = lp_int.t]
    /\ lp_ops' = Append(lp_ops, "time")
    /\ lp_pc' = "append"
    /\ UNCHANGED <<lp_int, lp_max_time, lp_site, lp_events, lp_b2imat,
                   lp_evals, lp_seen, lp_record, lp_before, lp_changed,
                   lp_polls>>
    /\ UNCHANGED notLpVars

\* lines 847-856: new_row and record = record.append(new_row)
LpAppend ==
    /\ lp_pc = "append"
    /\ lp_record' = record_append(lp_record,
                                  run_new_row(lp_self.time, lp_events))
    /\ lp_changed' = Append(lp_changed,
                        <<lp_self.on_rail # lp_before[1],
                          lp_self.parachute_deployed # lp_before[2]>>)
    /\ lp_ops' = Append(lp_ops, "append")
    /\ lp_pc' = "test"
    /\ UNCHANGED <<lp_self, lp_int, lp_max_time, lp_site, lp_events, lp_b2imat,
                   lp_evals, lp_seen, lp_before, lp_polls>>
    /\ UNCHANGED notLpVars

(* ------------------ the altitudes given to Atmosphere ----------------- *)
\* metres in one unit of altitude of this section
AltUnit == 10
\* the clamp domain of fdot
alt_min == (0 - 5000) \div AltUnit
alt_max == 81020 \div AltUnit

\* altitudes of the states the integrator tries and accepts
AtmosAlts == {alt_min - 100, alt_min, 0, 10, alt_max, alt_max + 1, 9000}

\* fdot, lines 543-546
fdot_clamp_alt(alt) ==
    IF alt < alt_min THEN alt_min
    ELSE IF alt > alt_max THEN alt_max
    ELSE alt

\* Atmosphere(alt) raises ValueError for an altitude out of its range
Atmosphere_raises(alt) == alt < alt_min \/ alt > alt_max

\* the altitudes fdot calls Atmosphere with at a state of altitude alt
fdot_atmosphere_alts(alt) == {fdot_clamp_alt(alt)}

\* the altitudes check_phase calls Atmosphere with: the debug message of the
\* rail departure
check_phase_atmosphere_alts(rail, p, site, debug) ==
    IF rail /\ RailCleared(p, site.alt, site.rail_length) /\ debug
    THEN {pos_i2alt(p)}
    ELSE {}

AtIdle ==
    /\ at_pc = "idle"
    /\ at_pos = <<0, 0>>
    /\ at_time = 0
    /\ at_on_rail = TRUE
    /\ at_site = [alt |-> 0, rail_length |-> 0]
    /\ at_debug = FALSE
    /\ at_lookups = {}

\* run(debug=...) entered and the integrator built, its constructor having
\* evaluated fdot at the launch site, where the rocket stands
AtInit ==
    /\ at_pc = "test"
    /\ at_site \in [alt : {a \in AtmosAlts : a >= 0}, rail_length : {1, 10}]
    /\ at_pos = <<0, at_site.alt>>
    /\ at_time = 0
    /\ at_on_rail = TRUE
    /\ at_debug \in BOOLEAN
    /\ at_lookups = fdot_atmosphere_alts(at_site.alt)

\* line 800, and line 805 when the loop goes on: check_phase, which is left
\* by the ValueError of its Atmosphere(alt) when alt is out of range, after
\* on_rail was set
AtCheckPhase ==
    /\ at_pc = "test"
    /\ IF while_condition(at_pos, at_time, MaxTime)
       THEN /\ at_on_rail' = check_phase_on_rail(at_on_rail, at_pos,
                                 at_site.alt, at_site.rail_length)
            /\ \E alts \in {check_phase_atmosphere_alts(at_on_rail, at_pos,
                                                         at_site, at_debug)} :
                  /\ at_lookups' = at_lookups \cup alts
                  /\ at_pc' = IF \E a \in alts : Atmosphere_raises(a)
                              THEN "raised" ELSE "step"
       ELSE /\ at_pc' = "returned"
            /\ UNCHANGED <<at_on_rail, at_lookups>>
    /\ UNCHANGED <<at_pos, at_time, at_site, at_debug>>
    /\ UNCHANGED notAtVars

\* inside integrator.step(): fdot evaluated at a trial state
AtEval ==
    /\ at_pc = "step"
    /\ \E a \in AtmosAlts :
          at_lookups' = at_lookups \cup fdot_atmosphere_alts(a)
    /\ UNCHANGED <<at_pc, at_pos, at_time, at_on_rail, at_site, at_debug>>
    /\ UNCHANGED notAtVars

\* integrator.step() returns and the state is copied, lines 806-842
AtAccept ==
    /\ at_pc = "step"
    /\ \E a \in AtmosAlts, hs \in 1..MaxH :
          /\ at_pos' = <<0, a>>
          /\ at_time' = at_time + hs
    /\ at_pc' = "test"
    /\ UNCHANGED <<at_on_rail, at_site, at_debug, at_lookups>>
    /\ UNCHANGED notAtVars

(* ------------- run(): rotation on and off the rail -------------------- *)
\* iterations followed
MaxRailIter == 2

\* The integrator advances the rate y[6:9] and the axes y[9:18] together,
\* the axis derivatives of every stage using that stage's rate.  Under the
\* constant wdot_b of one step the rate goes linearly from w to w_new, and the
\* axes turn as under the mean of the two.  The moments about the body y axis
\* are drawn even, so that this mean is a whole number of quarter turns per
\* tick.
step_mean_w(w, w_new) == [i \in 1..3 |-> (w[i] + w_new[i]) \div 2]

\* w_i = b2i.apply(w_b) with b2i = Rotation.from_matrix of the axes in fn,
\* which are whole
fdot_w_i(y, w) ==
    IF w = Zero3 THEN {Zero3}
    ELSE { [i \in 1..3 |-> Apply(b.num, w)[i] \div b.den] :
               b \in from_matrix(Whole(y)) }

RlIdle ==
    /\ rl_on_rail = TRUE
    /\ rl_deployed = FALSE
    /\ rl_w_b = Zero3
    /\ rl_y_w = Zero3
    /\ rl_y = ZeroMatrix
    /\ rl_b2imat = Whole(ZeroMatrix)
    /\ rl_b2i = Whole(ZeroMatrix)
    /\ rl_axes0 = ZeroMatrix
    /\ rl_rows = 0
    /\ rl_raised = FALSE

\* Rocket.__init__ and the head of run(): the axes are those of the rail,
\* w_b is [0, 0, 0] and fn is built from them
RlInit ==
    /\ rl_on_rail = TRUE
    /\ rl_deployed = FALSE
    /\ rl_w_b = Zero3
    /\ rl_y_w = Zero3
    /\ rl_axes0 \in Rotations
    /\ rl_y = rl_axes0
    /\ rl_b2imat = Whole(ZeroMatrix)
    /\ rl_b2i = Whole(rl_axes0)
    /\ rl_rows = 0
    /\ rl_raised = FALSE

\* one iteration with the parachute not deployed: check_phase clears the rail
\* or not, the integrator steps under a pitch moment 2 * m, the state is
\* copied and b2imat is taken from the integrated axes
RailArmed ==
    /\ rl_rows < MaxRailIter
    /\ ~rl_raised
    /\ ~rl_deployed
    /\ \E clears \in (IF rl_on_rail THEN BOOLEAN ELSE {FALSE}),
          m \in PitchMoments :
          LET rail == rl_on_rail /\ ~clears
              wdot == fdot_wdot_b(rail, <<0, 2 * m, 0>>, rl_y_w, 1, 1, 1)
          IN  \E w_new \in {[i \in 1..3 |-> rl_y_w[i] + wdot[i]]} :
                  /\ w_new[2] \in {2 * r : r \in PitchRates}
                  /\ rl_on_rail' = rail
                  /\ rl_y_w' = w_new
                  /\ rl_w_b' = w_new
                  /\ \E w_i \in fdot_w_i(rl_y, step_mean_w(rl_y_w, w_new)) :
                      \E y_new \in {integrate_axes(rl_y, w_i, 1)} :
                      \E b2imat \in {run_b2imat(FALSE, y_new, rl_b2i, Zero3)} :
                      \E raised \in (IF from_matrix_raises(b2imat)
                                     THEN BOOLEAN ELSE {FALSE}) :
                          /\ rl_y' = y_new
                          /\ rl_raised' = raised
                          /\ rl_b2imat' = IF raised THEN rl_b2imat ELSE b2imat
                          /\ rl_b2i' \in (IF raised THEN {rl_b2i}
                                         ELSE from_matrix(b2imat))
                          /\ rl_rows' = IF raised THEN rl_rows
                                        ELSE rl_rows + 1
    /\ UNCHANGED <<rl_deployed, rl_axes0>>
    /\ UNCHANGED notRlVars

\* one iteration whose check_phase deploys the parachute, or a later one:
\* b2imat is built from the velocity v relative to the wind and the z column
\* of self.b2i; when Rotation.from_matrix raises, run() is left before
\* self.b2i is assigned and the row appended
RailDeployed ==
    /\ rl_rows < MaxRailIter
    /\ ~rl_raised
    /\ rl_deployed' = TRUE
    /\ \E clears \in (IF rl_on_rail THEN BOOLEAN ELSE {FALSE}),
          m \in PitchMoments, v \in UnitAxes :
          LET rail == rl_on_rail /\ ~clears
              wdot == fdot_wdot_b(rail, <<0, 2 * m, 0>>, rl_y_w, 1, 1, 1)
          IN  \E w_new \in {[i \in 1..3 |-> rl_y_w[i] + wdot[i]]} :
                  /\ w_new[2] \in {2 * r : r \in PitchRates}
                  /\ rl_on_rail' = rail
                  /\ rl_y_w' = w_new
                  /\ rl_w_b' = w_new
                  /\ \E w_i \in fdot_w_i(rl_y, step_mean_w(rl_y_w, w_new)) :
                      \E y_new \in {integrate_axes(rl_y, w_i, 1)} :
                      \E b2imat \in {run_b2imat(TRUE, y_new, rl_b2i, v)} :
                      \E raised \in (IF from_matrix_raises(b2imat)
                                     THEN BOOLEAN ELSE {FALSE}) :
                          /\ rl_y' = y_new
                          /\ rl_raised' = raised
                          /\ rl_b2imat' = IF raised THEN rl_b2imat ELSE b2imat
                          /\ rl_b2i' \in (IF raised THEN {rl_b2i}
                                         ELSE from_matrix(b2imat))
                          /\ rl_rows' = IF raised THEN rl_rows
                                        ELSE rl_rows + 1
    /\ UNCHANGED rl_axes0
    /\ UNCHANGED notRlVars

(* ------------- fdot(): the queries made of the mass model ------------- *)
\* scipy.misc.derivative(func, x0, dx) with the default order of 3: func is
\* evaluated at x0 - dx, x0 and x0 + dx, in that order
derivative_points(x0, dx) == <<x0 - dx, x0, x0 + dx>>

\* the queries of one evaluation, in the order fdot makes them: cog, mass and
\* the moments of inertia at `time`, then, while the motor burns, the mass at
\* the points of the derivative and the centre of gravity once more
fdot_mass_queries(t) ==
    << <<"cog", t>>, <<"mass", t>>, <<"ixx", t>>,
       <<"iyy", t>>, <<"izz", t>> >>
    \o (IF fdot_motor_on(t)
        THEN [i \in 1..3 |-> <<"mass", derivative_points(t, 1)[i]>>]
             \o << <<"cog", t>> >>
        ELSE <<>>)

\* self.mass_model.<method>(t)
mass_model_query(d, c) ==
    CASE c[1] = "mass" -> mm_mass(d, c[2])
      [] c[1] = "ixx"  -> mm_ixx(d, c[2])
      [] c[1] = "iyy"  -> mm_iyy(d, c[2])
      [] c[1] = "izz"  -> mm_izz(d, c[2])
      [] OTHER         -> mm_cog(d, c[2])

FqIdle ==
    /\ fq_data = 1
    /\ fq_time = 0
    /\ fq_pending = <<>>
    /\ fq_call = <<"none", 0>>
    /\ fq_result = Returned(0)
    /\ fq_raised = FALSE

\* a Rocket holding a CylindricalMassModel, before fdot is first called
FqInit ==
    /\ fq_data \in 1..Len(MassData)
    /\ fq_time = 0
    /\ fq_pending = <<>>
    /\ fq_call = <<"none", 0>>
    /\ fq_result = Returned(0)
    /\ fq_raised = FALSE

\* the integrator calls fdot(time, fn): its constructor at time 0, its steps
\* at the times of their stages
FqEnter ==
    /\ fq_pending = <<>>
    /\ ~fq_raised
    /\ \E t \in 0..MaxQueryT :
          /\ fq_time' = t
          /\ fq_pending' = fdot_mass_queries(t)
    /\ UNCHANGED <<fq_data, fq_call, fq_result, fq_raised>>
    /\ UNCHANGED notFqVars

\* fdot makes its next query; an exception of the mass model leaves fdot
FqQuery ==
    /\ fq_pending # <<>>
    /\ ~fq_raised
    /\ \E r \in {mass_model_query(MassData[fq_data], Head(fq_pending))} :
          /\ fq_call' = Head(fq_pending)
          /\ fq_result' = r
          /\ fq_raised' = ~r.ok
          /\ fq_pending' = IF r.ok THEN Tail(fq_pending) ELSE <<>>
    /\ UNCHANGED <<fq_data, fq_time>>
    /\ UNCHANGED notFqVars

RestIdle ==
    RecIdle /\ LlIdle /\ TrIdle /\ OrIdle /\ FfIdle /\ LpIdle /\ AtIdle
    /\ RlIdle /\ FqIdle

Init == RunInit /\ MassIdle /\ FdotIdle /\ StepIdle /\ HeapIdle /\ RestIdle

Next ==
    \/ RunStart
    \/ LoopTest
    \/ CheckPhase
    \/ IntegratorStep
    \/ IntegratorFail
    \/ StepRaises

Spec == Init /\ [][Next]_vars

(* ======================= claims on Rocket.run ========================= *)
RailDisplacementReached ==
    flight_distance_sq(pos_l, site_alt) >= rail_length * rail_length

\* C1 (as stated): no accepted state whose launch-frame displacement is at
\* least rail_length is left with on_rail still True: neither a state that
\* check_phase has looked at nor the state the run ends in.
C1_NoStateLeftOnRail ==
    (pc = "step" \/ pc = "done") => (on_rail => ~RailDisplacementReached)

\* C1 (amended): on_rail flips exactly in the check_phase call that sees a
\* displacement of at least rail_length, emitting "Cleared rail": a checked
\* state at or beyond the rail length is never left on the rail, a checked
\* state short of it never leaves the rail, and on_rail changes nowhere else.
C1_RailFlipsAtCheck ==
    /\ [](pc = "step" /\ on_rail => ~RailDisplacementReached)
    /\ [][ /\ (pc = "phase" /\ on_rail /\ RailDisplacementReached
                 => ~on_rail' /\ events'[1] = "Cleared rail")
           /\ (pc = "phase" /\ on_rail /\ ~RailDisplacementReached
                 => on_rail' /\ (\A i \in 1..Len(events') :
                                    events'[i] # "Cleared rail"))
           /\ (on_rail # on_rail' => pc = "phase") ]_vars

\* the rail was cleared by a check_phase call after at least one step
C1_Witness ==
    /\ pc = "step"
    /\ ~on_rail
    /\ record_len >= 1
    /\ Len(events) >= 1
    /\ events[1] = "Cleared rail"

\* C2: once on_rail is False it is never True again, and once
\* parachute_deployed is True it is never False again.
C2_FlagsOneWay ==
    [][ /\ (~on_rail => ~on_rail')
        /\ (parachute_deployed => parachute_deployed') ]_vars

\* check_phase ran again with both flags already switched
C2_Witness ==
    /\ pc = "step"
    /\ ~on_rail
    /\ parachute_deployed
    /\ events = <<>>
    /\ record_len >= 2

ParachuteDeployedIn(ev) == \E i \in 1..Len(ev) : ev[i] = "Parachute deployed"

\* C3: in the iteration whose check_phase deployed the parachute, w_b is
\* [0,0,0] once the integrator step has completed, in the Rocket and in the
\* snapshot of that iteration.
C3_ZeroRateAfterDeployStep ==
    (pc = "loop" /\ record_len >= 1 /\ ParachuteDeployedIn(new_row.events))
        => (w_b = Zero3 /\ new_row.w_b = Zero3)

\* the deployment iteration has completed
C3_Witness ==
    pc = "loop" /\ record_len >= 1 /\ ParachuteDeployedIn(new_row.events)

\* C4: while not deployed, a check_phase call polls when alt_poll_watch <
\* time - interval; a poll deploys iff the current altitude is strictly below
\* alt_record, and otherwise stores the current altitude and time; without a
\* poll nothing is stored; alt_record is the launch altitude until a poll
\* stores another.
C4_PollAndDeploy ==
    /\ [](alt_poll_watch = AltPollInterval => alt_record = site_alt)
    /\ [][ pc = "phase" /\ ~parachute_deployed =>
             LET poll == alt_poll_watch < time - AltPollInterval
                 cur == pos_l[2]
             IN  /\ parachute_deployed' <=> (poll /\ cur < alt_record)
                 /\ (poll /\ ~(cur < alt_record)) =>
                        (alt_record' = cur /\ alt_poll_watch' = time)
                 /\ (~poll \/ cur < alt_record) =>
                        (alt_record' = alt_record
                         /\ alt_poll_watch' = alt_poll_watch) ]_vars

\* a poll that did not deploy was followed by one that did
C4_Witness ==
    /\ parachute_deployed
    /\ alt_poll_watch > AltPollInterval
    /\ alt_record > site_alt

\* C5: the loop body is entered only with the altitude at or above the
\* launch-site altitude and time below max_time, and the run stops only when
\* the altitude is below the launch-site altitude or time has reached max_time.
C5_StopsAtLaunchSiteAltitude ==
    /\ pc = "phase" => (pos_i2alt(pos_l) >= site_alt /\ time < MaxTime)
    /\ pc = "done" => (pos_i2alt(pos_l) < site_alt \/ time >= MaxTime)

\* the run loop is still stepping below the launch-site altitude
C5_Witness ==
    pc = "step" /\ pos_i2alt(pos_l) < site_alt /\ pos_i2alt(pos_l) >= 0

\* C7: after every accepted step, burn_out is not set while the accepted time
\* is more than one accepted step before the burn end, and is set once the
\* accepted time is one accepted step past it.
C7_BurnOutWithinOneStep ==
    (pc = "loop" /\ record_len >= 1) =>
        /\ burn_out => BurnEnd - time <= h_previous
        /\ time - BurnEnd >= h_previous => burn_out

\* burn_out is set at an accepted time before the burn end
C7_Witness ==
    pc = "loop" /\ record_len >= 1 /\ burn_out /\ time < BurnEnd

\* C11: after every run-loop iteration whose step was accepted, in the
\* fixed-step and in the adaptive configuration, self.h is the step actually
\* used: the rocket's time after the iteration minus its time before it.
C11_HIsLastAcceptedStep ==
    [][(pc = "step" /\ pc' = "loop" /\ status' = "running")
          => rocket_h' = time' - time]_vars

\* fixed-step configuration: the configured step was tried and rejected, a
\* smaller one was accepted, and self.h still holds the configured one
C11_Witness ==
    /\ pc = "loop"
    /\ ~variable_time
    /\ status = "running"
    /\ record_len > 0
    /\ rocket_h > h_previous
    /\ new_row.time = time

\* C12, as stated: an integrator call that does not advance the time ends the
\* run with a failure at once and appends no snapshot for it.
C12_NoSnapshotWithoutAdvance ==
    [][(pc = "step" /\ time' = time)
          => (pc' = "raised" /\ record_len' = record_len)]_vars

\* C12, amended: the iteration whose step fails still appends its snapshot
\* (with the unchanged time); from then on nothing more is appended, time
\* stays, the run cannot return normally, and the only exit is the
\* RuntimeError raised by the next integrator.step() call.
C12_FailureEndsRun ==
    /\ [][status = "failed"
             => (record_len' = record_len /\ time' = time /\ pc' # "done")]_vars
    /\ [][(pc = "step" /\ status' = "failed" /\ status = "running")
             => (record_len' = record_len + 1 /\ new_row'.time = time)]_vars
    /\ [](pc = "raised" => status = "failed")

\* some steps were accepted, then one failed, and the run ended by raising
C12_Witness ==
    /\ pc = "raised"
    /\ status = "failed"
    /\ record_len >= 3
    /\ new_row.time = time

(* ================ claims on CylindricalMassModel ====================== *)
InitMass ==
    MassInit /\ RunIdle /\ FdotIdle /\ StepIdle /\ HeapIdle /\ RestIdle

MassNext == CallMass \/ CallIxx \/ CallIyy \/ CallIzz \/ CallCog

SpecMass == InitMass /\ [][MassNext]_vars

\* the value a method has at a time inside the data range, from the data
MassAt(d, t) ==
    LET i == CHOOSE k \in 1..(Len(d.time) - 1) :
                 d.time[k] <= t /\ t <= d.time[k + 1]
    IN  d.mass[i] + ((d.mass[i + 1] - d.mass[i]) * (t - d.time[i]))
                       \div (d.time[i + 1] - d.time[i])
ValueAt(method, d, t) ==
    CASE method = "mass" -> MassAt(d, t)
      [] method = "ixx" -> (d.r * d.r * MassAt(d, t)) \div 2
      [] method \in {"iyy", "izz"} ->
            ((3 * d.r * d.r + d.l * d.l) * MassAt(d, t)) \div 12
      [] method = "cog" -> d.l \div 2
NearestDataTime(d, t) ==
    IF t < d.time[1] THEN d.time[1]
    ELSE IF t > d.time[Len(d.time)] THEN d.time[Len(d.time)]
    ELSE t

\* C8: each of mass, ixx, iyy, izz and cog fails when t < 0 and
\* otherwise returns its value at the data time nearest to t.
C8_AllFailOnNegativeTime ==
    mm_call[1] # "none" =>
        IF mm_call[2] < 0
        THEN ~mm_result.ok
        ELSE mm_result = Returned(ValueAt(mm_call[1], MassData[mm_data],
                              NearestDataTime(MassData[mm_data], mm_call[2])))

\* a centre-of-gravity query at a negative time was answered
C8_Witness ==
    /\ mm_call[1] = "cog"
    /\ mm_call[2] < 0
    /\ mm_result.ok

(* ================= claims on fdot's accelerations ===================== *)
InitFdot ==
    FdotInit /\ RunIdle /\ MassIdle /\ StepIdle /\ HeapIdle /\ RestIdle

FdotNext == FdotEval

SpecFdot == InitFdot /\ [][FdotNext]_vars

\* C6: evaluated with on_rail True, fdot returns a linear acceleration
\* collinear with the body forward axis b2i.apply([1,0,0]) and a rotational
\* acceleration of exactly [0,0,0], whatever the forces and moments are.
C6_OnRailAlongAxisNoRotation ==
    (fd_out.called /\ fd_in.rail) =>
        /\ Cross(fd_out.acc_i, fd_in.b2i[1]) = Zero3
        /\ fd_out.wdot_b = Zero3

\* an on-rail evaluation with a force across the axis and a moment
C6_Witness ==
    /\ fd_out.called
    /\ fd_in.rail
    /\ Cross(fd_in.F_i, fd_in.b2i[1]) # Zero3
    /\ fd_in.M_b # Zero3
    /\ fd_out.acc_i # Zero3

(* ================= claims on the first simulator's step =============== *)
InitStep ==
    StepInit /\ RunIdle /\ MassIdle /\ FdotIdle /\ HeapIdle /\ RestIdle

StepNext == LegacyStep

SpecStep == InitStep /\ [][StepNext]_vars

\* C10: a trial step of the adaptive configuration whose scaled error
\* estimate is above 1 advances neither the time nor the state.
C10_RejectsAboveTolerance ==
    [][ (st_variable /\ st_calls' = st_calls + 1 /\ ErrAboveOne(st_err'))
            => (st_time' = st_time /\ st_pos' = st_pos) ]_vars

\* a step with err above 1 was taken and the time advanced
C10_Witness ==
    /\ st_variable /\ st_calls >= 1 /\ ErrAboveOne(st_err)
    /\ st_time.fin = "finite" /\ st_time.val > 0

(* ================= claims on the default arguments ==================== *)
InitDefaults ==
    HeapInit /\ RunIdle /\ MassIdle /\ FdotIdle /\ StepIdle /\ RestIdle

HeapNext == Construct \/ SetEnvVar \/ SetParachute

SpecDefaults == InitDefaults /\ [][HeapNext]_vars

\* C9: a Rocket constructed with default arguments, none of whose own
\* attributes was written to, still has the default error factors and the
\* default parachute, whatever was done to other Rockets.
C9_NoSharedDefaults ==
    \A j \in 1..Len(rockets) :
        (rockets[j].defaults /\ j \notin touched) =>
            /\ heap[rockets[j].env_vars] = FreshErrors
            /\ heap[rockets[j].parachute] = FreshParachute

\* two rockets built with defaults, one of them written to
C9_Witness ==
    /\ Len(rockets) = 2
    /\ rockets[1].defaults
    /\ rockets[2].defaults
    /\ touched = {1}

(* ================= claims on the record and its export ================ *)
OldIdle == RunIdle /\ MassIdle /\ FdotIdle /\ StepIdle /\ HeapIdle

InitRecord ==
    RecInit /\ OldIdle /\ LlIdle /\ TrIdle /\ OrIdle /\ FfIdle /\ LpIdle
    /\ AtIdle /\ RlIdle /\ FqIdle

RecordNext == RecStep \/ RecStepFail \/ RecRaise \/ RecReturn \/ FromJson

SpecRecord == InitRecord /\ [][RecordNext]_vars

RecordTimesIncrease(rec) ==
    \A i \in 1..Len(rec) : \A j \in 1..Len(rec) :
        i < j => rec[i].time < rec[j].time

\* C13, as stated: every iteration appends exactly one snapshot and leaves
\* the existing ones as they are, and snapshot times are strictly increasing
\* along the record at all times.
C13_AppendOnlyStrictTimes ==
    /\ [][record' # record
            => (Len(record') = Len(record) + 1
                /\ SubSeq(record', 1, Len(record)) = record)]_vars
    /\ [](RecordTimesIncrease(record))

\* C13, amended: the record is append-only with one snapshot per completed
\* iteration; times are strictly increasing along the snapshots of accepted
\* steps and along every record run() returns; the one snapshot of a failed
\* step repeats the time of the snapshot before it.
C13_AppendOnlyTimesOfAcceptedSteps ==
    /\ [][record' # record
            => (Len(record') = Len(record) + 1
                /\ SubSeq(record', 1, Len(record)) = record)]_vars
    /\ [][(rc_pc = "run" /\ rc_pc' = "run") => Len(record') = Len(record) + 1]_vars
    /\ [](rc_status \in {"running", "finished"}
            => RecordTimesIncrease(record))
    /\ [](rc_pc \in {"returned", "imported"} => RecordTimesIncrease(record))
    /\ [](rc_status = "failed" =>
            /\ RecordTimesIncrease(SubSeq(record, 1, Len(record) - 1))
            /\ record[Len(record)].time = rc_time
            /\ Len(record) >= 2 => record[Len(record) - 1].time = rc_time)

\* two accepted steps and a failed one: three snapshots, the last repeating
\* the time of the second
C13_Witness ==
    /\ rc_status = "failed"
    /\ Len(record) = 3
    /\ record[2].time > record[1].time
    /\ record[3].time = record[2].time

\* C15: the frame from_json reads from the file run(to_json=path) wrote has
\* the same time, pos_i and vel_i columns as the record, element for
\* element and in the same order; an empty record comes back empty.
C15_JsonRoundTrip ==
    (rc_pc = "imported") =>
        /\ Len(imported.rows) = Len(record)
        /\ \A i \in 1..Len(record) : \A c \in Columns :
               imported.rows[i][c] = record[i][c]

\* a record with a negative velocity component and a three-digit coordinate
\* went through the file
C15_Witness ==
    /\ rc_pc = "imported"
    /\ Len(record) >= 2
    /\ \E i \in 1..Len(record) :
          record[i].vel_i[2] < 0 /\ record[i].pos_i[1] >= 100

\* C30: in the record every snapshot but the last has altitude >= 0 and
\* time < max_time, since the loop condition held for it before the next
\* iteration; the loop is entered only from a state with both as well.
C30_AllButLastInsideGuard ==
    /\ [](\A i \in 1..(Len(record) - 1) :
              /\ pos_i2alt(record[i].pos_i) >= 0
              /\ record[i].time < rc_max_time)
    /\ [][(record = <<>> /\ record' # <<>>)
             => (pos_i2alt(rc_pos_i) >= 0 /\ rc_time < rc_max_time)]_vars

\* a returned record of three snapshots whose last one is below altitude 0
C30_Witness ==
    /\ rc_pc = "returned"
    /\ Len(record) >= 3
    /\ pos_i2alt(record[Len(record)].pos_i) < 0

(* ===================== claims on validate_lat_long ==================== *)
InitLatLong ==
    LlInit /\ OldIdle /\ RecIdle /\ TrIdle /\ OrIdle /\ FfIdle /\ LpIdle
    /\ AtIdle /\ RlIdle /\ FqIdle

LatLongNext == CallValidateLatLong

SpecLatLong == InitLatLong /\ [][LatLongNext]_vars

\* C14: validate_lat_long returns a latitude in [-90, 90] and a longitude in
\* [0, 360) for every input, out-of-range ones included.
C14_LatLongInRange ==
    ll_out.called =>
        /\ ll_out.lat >= 0 - 90 * Deg
        /\ ll_out.lat <= 90 * Deg
        /\ ll_out.long >= 0
        /\ ll_out.long < 360 * Deg

\* an out-of-range input that was normalised into the valid ranges
C14_Witness ==
    /\ ll_out.called
    /\ ll_in.lat > 90 * Deg
    /\ ll_in.long < 0
    /\ ll_out.lat >= 0 /\ ll_out.lat < 90 * Deg
    /\ ll_out.long >= 0 /\ ll_out.long < 360 * Deg

(* ============ claims on the first simulator's frame transforms ======== *)
InitTransforms ==
    TrInit /\ OldIdle /\ RecIdle /\ LlIdle /\ OrIdle /\ FfIdle /\ LpIdle
    /\ AtIdle /\ RlIdle /\ FqIdle

TransformsNext == PosRoundTrip \/ VelRoundTrip \/ RotRoundTrip

SpecTransforms == InitTransforms /\ [][TransformsNext]_vars

\* C16: for every launch site, time and vector, taking a position or a
\* velocity from the launch frame to the inertial frame and back returns it,
\* and rot_matrix(o, inverse=True) is the inverse of rot_matrix(o).
C16_TransformsAreInverses ==
    /\ tr_out.fn = "pos" => tr_out.vec = tr_in.vec
    /\ tr_out.fn = "vel" => tr_out.vec = tr_in.vec
    /\ tr_out.fn = "rot" => tr_out.mat = Identity3

\* a position round trip at a rotated site that did return the vector
C16_Witness ==
    /\ tr_out.fn = "pos"
    /\ tr_in.vec = <<1, 1, 0>>
    /\ tr_in.longi = 1
    /\ tr_in.tq = 1
    /\ tr_out.vec = tr_in.vec

(* ================== claims on the recorded orientation ================ *)
InitOrient ==
    OrInit /\ OldIdle /\ RecIdle /\ LlIdle /\ TrIdle /\ FfIdle /\ LpIdle
    /\ AtIdle /\ RlIdle /\ FqIdle

OrientNext == OrientArmed \/ OrientDeployed

SpecOrient == InitOrient /\ [][OrientNext]_vars

\* the columns of a matrix of fractions are orthogonal unit vectors
Orthonormal(m) ==
    \A a \in 1..3 : \A b \in 1..3 :
        Dot(m.num[a], m.num[b]) = IF a = b THEN m.den * m.den ELSE 0

\* C17: after any number of iterations, with the parachute armed or
\* deployed, the columns of the b2imat written to the snapshot are mutually
\* orthogonal unit vectors and the integrator continues from the
\* re-orthonormalized axes.
C17_SnapshotOrthonormal ==
    or_rows > 0 =>
        /\ Orthonormal(or_b2imat)
        /\ Whole(or_y) = or_b2i

\* an iteration in which the body turned, before and after deployment
C17_Witness ==
    /\ or_rows = 2
    /\ or_deployed
    /\ ~or_raised
    /\ Whole(or_y) # or_b2i
    /\ Orthonormal(or_b2imat)

(* ============== claims on fdot's force and moment terms =============== *)
InitForces ==
    FfInit /\ OldIdle /\ RecIdle /\ LlIdle /\ TrIdle /\ OrIdle /\ LpIdle
    /\ AtIdle /\ RlIdle /\ FqIdle

ForcesNext == ForcesEval

SpecForces == InitForces /\ [][ForcesNext]_vars

\* C18: whenever parachute_deployed is True, fdot takes the parachute
\* branch, for every parachute: the parachute drag is the only force added
\* there and no body aerodynamic force, aerodynamic moment or damping moment
\* is computed.
C18_DeployedTakesParachuteBranch ==
    (ff_out.called /\ ff_in.deployed) =>
        /\ ff_out.branch = "parachute"
        /\ ff_out.F_i = ff_out.F_parachute_i
        /\ ff_out.F_aero_b = Zero3
        /\ ff_out.M_aero_b = Zero3
        /\ ff_out.M_aerodamping_b = Zero3

\* a deployed rocket with a main parachute, evaluated: drag and nothing else
C18_Witness ==
    /\ ff_out.called
    /\ ff_in.deployed
    /\ ff_in.parachute.main_c_d # 0
    /\ ff_out.branch = "parachute"
    /\ ff_out.F_parachute_i # Zero3
    /\ ff_in.w_b # Zero3
    /\ ff_out.M_aerodamping_b = Zero3

\* C19: in the parachute branch the drag is directed against the apparent
\* wind and its magnitude is one half times density times airspeed squared
\* times the reference area times the drag coefficient of
\* Parachute.get(altitude).
C19_ParachuteDragMagnitude ==
    (ff_out.called /\ ff_out.branch = "parachute") =>
        LET CD == parachute_get(ff_in.parachute, ff_in.alt)[1]
            ref_area == parachute_get(ff_in.parachute, ff_in.alt)[2]
            V == ff_out.air_speed
        IN  \A i \in 1..3 :
               2 * V * ff_out.F_parachute_i[i] =
                   (0 - AeroData.ambient_density * V * V * ref_area * CD)
                       * ff_in.v_relative_wind_i[i]

\* the main parachute, below main_alt, at airspeed 2
C19_Witness ==
    /\ ff_out.called
    /\ ff_out.branch = "parachute"
    /\ ff_in.alt < ff_in.parachute.main_alt
    /\ ff_out.air_speed = 2
    /\ ff_out.F_parachute_i # Zero3

\* C20: fdot adds the thrust force, the thrust moment and the jet-damping
\* moment exactly when the evaluation time is before the burn end; at or
\* after it no thrust term is added and burn_out is True; burn_out never
\* returns to False.
C20_ThrustOnlyBeforeBurnEnd ==
    /\ [](ff_out.called =>
            /\ ff_out.motor <=> ff_time < BurnEnd
            /\ ff_out.motor => ff_out.F_thrust_b = <<MotorData.thrust, 0, 0>>
            /\ ff_out.motor => ff_out.F_b = Add3(ff_out.F_aero_b, ff_out.F_thrust_b)
            /\ ~ff_out.motor =>
                  /\ ff_out.F_thrust_b = Zero3
                  /\ ff_out.M_thrust_b = Zero3
                  /\ ff_out.M_jetdamping_b = Zero3
                  /\ ff_out.F_b = ff_out.F_aero_b
                  /\ ff_burn_out
            /\ ff_time >= BurnEnd => ~ff_out.motor)
    /\ [][ff_burn_out => ff_burn_out']_vars

\* an evaluation before the burn end made after one past it: thrust is
\* applied again and burn_out stays True
C20_Witness ==
    /\ ff_out.called
    /\ ff_time < BurnEnd
    /\ ff_out.motor
    /\ ff_burn_out
    /\ ff_out.M_jetdamping_b # Zero3

\* C24: fdot guards every division by the apparent airspeed: at zero apparent
\* airspeed, in the body branch and in the parachute branch, no division by
\* zero occurs and the returned derivative has no undefined value.
C24_AirspeedDivisionGuarded ==
    ff_out.called => ~ff_out.nan

\* fdot evaluated at t = 0 for a rocket at rest in still air
C24_Witness ==
    /\ ff_out.called
    /\ ff_time = 0
    /\ ff_in.v_relative_wind_i = Zero3
    /\ ~ff_in.deployed
    /\ ff_out.air_speed = 0
    /\ ff_out.branch = "body"

(* ============ claims on the run loop, statement by statement ========== *)
InitLoop ==
    LpInit /\ OldIdle /\ RecIdle /\ LlIdle /\ TrIdle /\ OrIdle /\ FfIdle
    /\ AtIdle /\ RlIdle /\ FqIdle

LoopNext ==
    \/ LpStart
    \/ LpTest
    \/ LpCheckPhase
    \/ LpStepCall
    \/ LpStepRaises
    \/ LpEval
    \/ LpStepAccept
    \/ LpStepFail
    \/ LpOrient
    \/ LpTime
    \/ LpAppend

SpecLoop == InitLoop /\ [][LoopNext]_vars

\* C21: an evaluation of fdot changes no attribute of the Rocket other than
\* burn_out; on_rail and parachute_deployed change only in check_phase; all
\* the evaluations inside one integrator.step(), whether of an accepted or of
\* a rejected trial, read the same on_rail and parachute_deployed, the ones
\* that iteration's check_phase left.
C21_FdotWritesOnlyBurnOut ==
    /\ [][(lp_pc = "eval" /\ lp_pc' = "eval")
             => lp_self' = [lp_self EXCEPT !.burn_out = lp_self'.burn_out]]_vars
    /\ [][(lp_self'.on_rail # lp_self.on_rail
           \/ lp_self'.parachute_deployed # lp_self.parachute_deployed)
             => lp_pc = "phase"]_vars
    /\ [](lp_pc \in {"eval", "orient", "time", "append"} =>
            lp_seen \subseteq {<<lp_self.on_rail, lp_self.parachute_deployed>>})

\* a step of two evaluations in the iteration whose check_phase cleared the
\* rail, one of them past the burn end
C21_Witness ==
    /\ lp_pc = "orient"
    /\ lp_evals >= 2
    /\ lp_before[1]
    /\ ~lp_self.on_rail
    /\ lp_self.burn_out
    /\ lp_self.time < BurnEnd - 1
    /\ lp_seen = {<<FALSE, FALSE>>}
IsPrefix(a, b) == Len(a) <= Len(b) /\ SubSeq(b, 1, Len(a)) = a

\* C22, as stated: every iteration the loop begins performs one check_phase,
\* one integrator step, the orientation reconstruction, the time update and
\* one snapshot append, in this order.
C22_EveryIterationComplete ==
    (lp_pc \in {"test", "returned", "raised"} /\ lp_ops # <<>>)
        => lp_ops = IterationOps

\* C22, amended: an iteration whose integrator.step() call returns performs,
\* in this order, one check_phase, one integrator step, the orientation
\* reconstruction (from the relative wind if parachute_deployed, otherwise
\* from the integrated axes), the time update and one snapshot append, and
\* the row's event list is the one that iteration's check_phase returned; an
\* iteration whose integrator.step() call raises has performed check_phase
\* and appends nothing.
C22_IterationOrder ==
    /\ [](IsPrefix(lp_ops, IterationOps))
    /\ []((lp_pc \in {"test", "returned"} /\ lp_ops # <<>>)
             => lp_ops = IterationOps)
    /\ [](lp_pc = "raised" => lp_ops = <<"check_phase", "step">>)
    /\ [][lp_pc = "phase" =>
             lp_events' = check_phase_events(lp_self.on_rail,
                              lp_self.parachute_deployed,
                              lp_self.alt_poll_watch, lp_self.time,
                              lp_self.alt_record, lp_self.pos_i, lp_site.alt,
                              lp_site.rail_length)]_vars
    /\ [][lp_pc # "phase" => lp_events' = lp_events]_vars
    /\ [](lp_pc \in {"time", "append"} =>
             lp_b2imat = (IF lp_self.parachute_deployed THEN "wind"
                          ELSE "axes"))
    /\ [](lp_pc = "append" => lp_self.time = lp_int.t)
    /\ [][lp_pc = "append" =>
             /\ Len(lp_record') = Len(lp_record) + 1
             /\ lp_record'[Len(lp_record')].events = lp_events
             /\ lp_record'[Len(lp_record')].time = lp_self.time]_vars
    /\ [][lp_pc # "append" => lp_record' = lp_record]_vars

\* the iteration that deployed the parachute has completed: its row carries
\* the event and its b2imat was built from the relative wind
C22_Witness ==
    /\ lp_pc = "test"
    /\ lp_ops = IterationOps
    /\ Len(lp_record) >= 2
    /\ lp_record[Len(lp_record)].events = <<"Parachute deployed">>
    /\ lp_b2imat = "wind"
HasEvent(row, e) == \E k \in 1..Len(row.events) : row.events[k] = e
RowsWith(rec, e) == { i \in 1..Len(rec) : HasEvent(rec[i], e) }

\* C26: in the record, "Cleared rail" is in the event list of at most one
\* snapshot and "Parachute deployed" is in the event list of at most one
\* snapshot; a snapshot carries "Cleared rail" exactly when on_rail changed
\* in its iteration and "Parachute deployed" exactly when parachute_deployed
\* changed in its iteration.
C26_EventsOncePerFlagChange ==
    /\ Cardinality(RowsWith(lp_record, "Cleared rail")) <= 1
    /\ Cardinality(RowsWith(lp_record, "Parachute deployed")) <= 1
    /\ Len(lp_changed) = Len(lp_record)
    /\ \A i \in 1..Len(lp_record) :
          /\ HasEvent(lp_record[i], "Cleared rail") <=> lp_changed[i][1]
          /\ HasEvent(lp_record[i], "Parachute deployed") <=> lp_changed[i][2]

\* a returned record with a row before the rail departure, the row of the
\* rail departure, the row of the deployment and a row after it
C26_Witness ==
    /\ lp_pc = "returned"
    /\ Len(lp_record) >= 4
    /\ \E i \in 2..Len(lp_record) : \E j \in (i + 1)..(Len(lp_record) - 1) :
          /\ lp_record[i].events = <<"Cleared rail">>
          /\ lp_record[j].events = <<"Parachute deployed">>

\* C28: whatever max_time is, integrator.step() is never called once the
\* integrator has reached the end time it was constructed with
C28_NoStepAfterEndTime ==
    lp_pc \in {"eval", "raised"} => lp_int.t < t_bound

\* a run whose max_time is the integrator's end time: the integrator reached
\* it, the loop condition failed and run() returned the record
C28_Witness ==
    /\ lp_pc = "returned"
    /\ lp_int.status = "finished"
    /\ lp_self.time = t_bound
    /\ pos_i2alt(lp_self.pos_i) >= 0
    /\ Len(lp_record) >= 1

\* C29: no check_phase call at a time of at most twice alt_poll_interval
\* polls the altitude, so none deploys the parachute; two consecutive polls
\* are more than alt_poll_interval apart
C29_PollsSpaced ==
    /\ \A i \in 1..Len(lp_polls) : lp_polls[i] > 2 * AltPollInterval
    /\ \A i \in 1..(Len(lp_polls) - 1) :
           lp_polls[i + 1] - lp_polls[i] > AltPollInterval
    /\ lp_self.parachute_deployed =>
           /\ Len(lp_polls) >= 1
           /\ lp_self.time >= lp_polls[Len(lp_polls)]

\* a flight polled twice, the second poll deploying the parachute
C29_Witness ==
    /\ Len(lp_polls) >= 2
    /\ lp_self.parachute_deployed

(* ================= claims on the atmosphere lookups =================== *)
InitAtmos ==
    AtInit /\ OldIdle /\ RecIdle /\ LlIdle /\ TrIdle /\ OrIdle /\ FfIdle
        /\ LpIdle /\ RlIdle /\ FqIdle

AtmosNext == AtCheckPhase \/ AtEval \/ AtAccept

SpecAtmos == InitAtmos /\ [][AtmosNext]_vars

\* C23: every altitude an atmosphere lookup of the simulator receives lies
\* in the clamp domain [-5000, 81020] m, whatever the rocket's position is.
C23_LookupsInClampDomain ==
    \A a \in at_lookups : a >= alt_min /\ a <= alt_max

\* fdot was evaluated below and above the domain and looked the atmosphere
\* up at its two ends
C23_Witness ==
    /\ ~at_debug
    /\ ~at_on_rail
    /\ alt_min \in at_lookups
    /\ alt_max \in at_lookups
(* ================ claims on the rotation on the rail ================== *)
InitRail ==
    RlInit /\ OldIdle /\ RecIdle /\ LlIdle /\ TrIdle /\ OrIdle /\ FfIdle
        /\ LpIdle /\ AtIdle /\ FqIdle

RailNext == RailArmed \/ RailDeployed

SpecRail == InitRail /\ [][RailNext]_vars

\* C25, as stated: while on_rail is True, over any number of iterations, w_b
\* is exactly [0,0,0] and the rocket's three body axes, in the integrator
\* state, in self.b2i and in the snapshot, are the initial rail-aligned ones.
C25_NoRotationOnRail ==
    rl_on_rail =>
        /\ rl_w_b = Zero3
        /\ rl_y = rl_axes0
        /\ rl_b2i = Whole(rl_axes0)
        /\ rl_rows > 0 => rl_b2imat = Whole(rl_axes0)

\* C25, amended: while on_rail is True, w_b and the integrated angular rate
\* are exactly [0,0,0] and the integrated axis vectors are the initial ones;
\* self.b2i and the snapshot's b2imat are the initial axes as long as the
\* parachute is not deployed.
C25_NoRotationOnRailUndeployed ==
    rl_on_rail =>
        /\ rl_w_b = Zero3
        /\ rl_y_w = Zero3
        /\ rl_y = rl_axes0
        /\ ~rl_deployed =>
              /\ rl_b2i = Whole(rl_axes0)
              /\ rl_rows > 0 => rl_b2imat = Whole(rl_axes0)

\* two iterations on the rail, under a pitch moment
C25_Witness ==
    /\ rl_on_rail
    /\ ~rl_deployed
    /\ rl_rows >= 2
    /\ rl_b2imat = Whole(rl_axes0)

(* ============ claims on the mass-model queries of fdot ================ *)
InitQueries ==
    FqInit /\ OldIdle /\ RecIdle /\ LlIdle /\ TrIdle /\ OrIdle /\ FfIdle
    /\ LpIdle /\ AtIdle /\ RlIdle

QueriesNext == FqEnter \/ FqQuery
SpecQueries == InitQueries /\ [][QueriesNext]_vars

\* C27: every query fdot makes of the mass model is at a time >= 0, so that
\* a mass model raising on a negative time never raises in an evaluation
C27_QueriesNonNegative ==
    /\ fq_call[1] # "none" => fq_call[2] >= 0
    /\ ~fq_raised

\* an evaluation at a time >= 1 while the motor burns made all its queries,
\* those of the derivative included, and none was at a negative time
C27_Witness ==
    /\ fq_time >= 1
    /\ fdot_motor_on(fq_time)
    /\ fq_pending = <<>>
    /\ fq_call = <<"cog", fq_time>>
    /\ ~fq_raised

====
